---- MODULE Spec2Model ----
(***************************************************************************)
(* A model of the incident / scorecard reporting tool: the incident.io     *)
(* adapter (src/incident_client.py), the Cortex adapter                    *)
(* (src/cortex_client.py) and the report engine (src/reporter.py).         *)
(*                                                                         *)
(* JSON values are tagged records, Python strings that are searched for    *)
(* substrings (service names, tags, titles) are sequences of one-character *)
(* strings, datetimes are integers (days), and a Python dict is the        *)
(* sequence of its (key, value) pairs in insertion order.                  *)
(***************************************************************************)
EXTENDS Integers, Sequences, FiniteSets, TLC

(***************************************************************************)
(* Bounds of the model.                                                    *)
(***************************************************************************)
\* longest `incidents` array of an incident API response
MaxRaw == 2
\* latest instant a timestamp of a payload denotes; instants start at 0
MaxTime == 1
\* latest value of the wall clock; the clock starts at 0
MaxClock == 1
\* most affected services one incident of a grouping input lists
MaxAffected == 2
\* longest `serviceScores` array of the catalog's service universe
MaxCatalog == 2
\* longest `scorecards` array of the catalog
MaxScorecards == 2
\* largest lookback window, in days
MaxDays == 2
\* most service names one catalog lookup is asked for
MaxNames == 2
\* most impacted services of a report that is printed
MaxPrinted == 16
\* most rules of a scorecard that is printed
MaxRules == 6
\* a report of more services than this, unless it is a longest one, is printed
\* with short scorecards only
FewPrinted == 3
\* a scorecard of more rules than this, unless it is a longest one, is printed
\* in short reports only
FewRules == 2

(***************************************************************************)
(* Python and JSON helpers.                                                *)
(***************************************************************************)
\* a JSON scalar as dict.get sees it: absent key, null, string or integer
JAbsent == [k |-> "absent", s |-> "", n |-> 0]
JNull == [k |-> "null", s |-> "", n |-> 0]
JStr(x) == [k |-> "str", s |-> x, n |-> 0]
JInt(x) == [k |-> "int", s |-> "", n |-> x]

\* the same for strings that are matched by containment: s is a sequence
NAbsent == [k |-> "absent", s |-> <<>>]
NNull == [k |-> "null", s |-> <<>>]
NStr(x) == [k |-> "str", s |-> x]

\* d.get(key, default) for a scalar field: the default only for an absent key
Get(v, default) == IF v.k = "absent" THEN default ELSE v

\* Python truthiness of a JSON scalar
Truthy(v) == \/ v.k = "str" /\ v.s # ""
             \/ v.k = "int" /\ v.n # 0

\* Python truthiness of a containment string
NTruthy(v) == v.k = "str" /\ v.s # <<>>

\* a or b
NOr(a, b) == IF NTruthy(a) THEN a ELSE b

\* str(n) for the small integers of the model
IntStr(n) == CASE n = 0 -> "0" [] n = 1 -> "1" [] n = 2 -> "2" [] n = 3 -> "3"
               [] n = 4 -> "4" [] n = 5 -> "5" [] n = 6 -> "6" [] n = 7 -> "7"
               [] n = 8 -> "8" [] OTHER -> "9"

\* str(v) of a non-dict JSON value
PyStr(v) == CASE v.k = "str" -> v.s
              [] v.k = "int" -> IntStr(v.n)
              [] OTHER -> "None"

\* the first exception raised, in code order ("none" when nothing is raised)
FirstExc(excs) ==
    IF \E i \in 1..Len(excs) : excs[i] # "none"
    THEN excs[CHOOSE i \in 1..Len(excs) :
                 /\ excs[i] # "none"
                 /\ \A j \in 1..(i - 1) : excs[j] = "none"]
    ELSE "none"

(***************************************************************************)
(* Strings that are matched: sequences of one-character strings.           *)
(***************************************************************************)
\* c.lower() for the characters of the model
LowerChar(c) == CASE c = "A" -> "a" [] c = "B" -> "b" [] c = "C" -> "c"
                  [] c = "T" -> "t" [] c = "X" -> "x" [] OTHER -> c

\* s.lower()
Lower(str) == [i \in 1..Len(str) |-> LowerChar(str[i])]

\* x in y, for two strings
IsSubstr(x, y) ==
    \E i \in 0..(Len(y) - Len(x)) : SubSeq(y, i + 1, i + Len(x)) = x

(***************************************************************************)
(* A Python dict: its (key, value) pairs in insertion order.               *)
(***************************************************************************)
HasKey(d, key) == \E i \in 1..Len(d) : d[i].key = key

DictGet(d, key) == d[CHOOSE i \in 1..Len(d) : d[i].key = key].val

\* d[key] = val: a present key keeps its place
DictSet(d, key, val) ==
    IF HasKey(d, key)
    THEN [i \in 1..Len(d) |-> IF d[i].key = key THEN [key |-> key, val |-> val] ELSE d[i]]
    ELSE Append(d, [key |-> key, val |-> val])

\* the elements of a sequence
Range(seq) == {seq[i] : i \in 1..Len(seq)}

\* the orders in which a set can be listed
Orders(S) ==
    {q \in [1..Cardinality(S) -> S] : \A i, j \in 1..Cardinality(S) : i # j => q[i] # q[j]}

(***************************************************************************)
(* Configuration.                                                          *)
(***************************************************************************)
\* the configured custom field that holds the affected services
SERVICE_FIELD_ID == "F-services"

(***************************************************************************)
(* _parse_incident: affected services.                                     *)
(***************************************************************************)
\* one value of a custom field entry: the services it contributes
\* (none, or one) and the exception raised while building it
ParseValue(value) ==
    IF ~value.vce
    THEN [exc |-> "none", svcs |-> <<>>]
    ELSE LET service_id == NOr(value.external_id, value.id)
             service_name == NOr(NOr(NOr(value.name, value.title), service_id),
                                 NStr(<<"Unknown Service">>))
         IN  IF ~NTruthy(service_id)
             THEN [exc |-> "none", svcs |-> <<>>]
             ELSE [exc |-> "none",
                   svcs |-> << [id |-> service_id.s, name |-> service_name.s] >>]

RECURSIVE ParseValues(_)
\* the loop over entry["values"]
ParseValues(values) ==
    IF values = <<>>
    THEN [exc |-> "none", svcs |-> <<>>]
    ELSE LET h == ParseValue(Head(values))
         IN  IF h.exc # "none"
             THEN h
             ELSE LET t == ParseValues(Tail(values))
                  IN  [exc |-> t.exc, svcs |-> h.svcs \o t.svcs]

RECURSIVE ParseEntries(_)
\* the loop over custom_field_entries: only the entry whose custom field id is
\* SERVICE_FIELD_ID contributes
ParseEntries(entries) ==
    IF entries = <<>>
    THEN [exc |-> "none", svcs |-> <<>>]
    ELSE LET e == Head(entries)
             custom_field_id == Get(e.custom_field_id, JStr(""))
             h == IF custom_field_id = JStr(SERVICE_FIELD_ID)
                  THEN ParseValues(e.values)
                  ELSE [exc |-> "none", svcs |-> <<>>]
         IN  IF h.exc # "none"
             THEN h
             ELSE LET t == ParseEntries(Tail(entries))
                  IN  [exc |-> t.exc, svcs |-> h.svcs \o t.svcs]

\* incident_data.get("custom_field_entries", []) and the loop over it: a null
\* value is iterated as None
ParseServices(cfe) ==
    CASE cfe.k = "absent" -> [exc |-> "none", svcs |-> <<>>]
      [] cfe.k = "null" -> [exc |-> "TypeError", svcs |-> <<>>]
      [] OTHER -> ParseEntries(cfe.items)

(***************************************************************************)
(* _parse_incident: severity and status.                                   *)
(***************************************************************************)
\* pydantic's check of a required str field (null is refused)
StrFieldOk(v) == v.k = "str"

\* pydantic's check of a required int field
IntFieldOk(v) == v.k = "int"

\* pydantic's check of an Optional[str] field
OptStrFieldOk(v) == v.k \in {"str", "null", "absent"}

\* the severity of an incident: [exc, val]
ParseSeverity(severity_data) ==
    LET data == IF severity_data.k = "absent"
                THEN [k |-> "obj", s |-> "", n |-> 0,
                      id |-> JAbsent, name |-> JAbsent, rank |-> JAbsent]
                ELSE severity_data
    IN  IF data.k = "obj"
        THEN LET id == Get(data.id, JStr("unknown"))
                 name == Get(data.name, JStr("Unknown"))
                 rank == Get(data.rank, JInt(0))
             IN  IF StrFieldOk(id) /\ StrFieldOk(name) /\ IntFieldOk(rank)
                 THEN [exc |-> "none",
                       val |-> [id |-> id.s, name |-> name.s, rank |-> rank.n]]
                 ELSE [exc |-> "ValidationError",
                       val |-> [id |-> "", name |-> "", rank |-> 0]]
        ELSE [exc |-> "none",
              val |-> [id |-> IF Truthy(data) THEN PyStr(data) ELSE "unknown",
                       name |-> "Unknown", rank |-> 0]]

\* the status of an incident: [exc, val]; `incident_status` wins over `status`
ParseStatus(incident_status, status) ==
    LET status_data == Get(incident_status,
                           Get(status, [k |-> "obj", s |-> "", n |-> 0,
                                        id |-> JAbsent, name |-> JAbsent,
                                        category |-> JAbsent]))
    IN  IF status_data.k = "obj"
        THEN LET id == Get(status_data.id, JStr("unknown"))
                 name == Get(status_data.name, JStr("Unknown"))
                 category == Get(status_data.category, JStr("unknown"))
             IN  IF StrFieldOk(id) /\ StrFieldOk(name) /\ StrFieldOk(category)
                 THEN [exc |-> "none",
                       val |-> [id |-> id.s, name |-> name.s, category |-> category.s]]
                 ELSE [exc |-> "ValidationError",
                       val |-> [id |-> "", name |-> "", category |-> ""]]
        ELSE [exc |-> "none",
              val |-> [id |-> IF Truthy(status_data) THEN PyStr(status_data)
                              ELSE "unknown",
                       name |-> "Unknown", category |-> "unknown"]]

(***************************************************************************)
(* _parse_incident: timestamps.  A timestamp string is its form ("iso",    *)
(* "isoZ" for the Z suffix, "bad" for text that is no ISO date, "" for the *)
(* empty string) and, for the two ISO forms, the instant it denotes.       *)
(***************************************************************************)
TsStr(form, t) == [k |-> "str", s |-> form, n |-> t]

\* datetime.fromisoformat(v.replace("Z", "+00:00")): [exc, t]
FromIso(v) ==
    CASE v.k = "absent" -> [exc |-> "KeyError", t |-> 0]
      [] v.k # "str" -> [exc |-> "AttributeError", t |-> 0]
      [] v.s \in {"iso", "isoZ"} -> [exc |-> "none", t |-> v.n]
      [] OTHER -> [exc |-> "ValueError", t |-> 0]

\* created_at: KeyError and ValueError fall back to the current time
ParseCreatedAt(v, clock) ==
    LET r == FromIso(v)
    IN  IF r.exc \in {"KeyError", "ValueError"}
        THEN [exc |-> "none", t |-> clock]
        ELSE r

\* updated_at: KeyError and ValueError fall back to created_at
ParseUpdatedAt(v, created_at) ==
    LET r == FromIso(v)
    IN  IF r.exc \in {"KeyError", "ValueError"}
        THEN [exc |-> "none", t |-> created_at]
        ELSE r

\* resolved_at: read only when truthy; ValueError leaves it None
ParseResolvedAt(v) ==
    IF ~Truthy(v)
    THEN [exc |-> "none", some |-> FALSE, t |-> 0]
    ELSE LET r == FromIso(v)
         IN  CASE r.exc = "none" -> [exc |-> "none", some |-> TRUE, t |-> r.t]
               [] r.exc = "ValueError" -> [exc |-> "none", some |-> FALSE, t |-> 0]
               [] OTHER -> [exc |-> r.exc, some |-> FALSE, t |-> 0]

(***************************************************************************)
(* _parse_incident.                                                        *)
(***************************************************************************)
NoIncident ==
    [id |-> "", name |-> "", created_at |-> 0, updated_at |-> 0,
     resolved_at |-> [some |-> FALSE, t |-> 0],
     severity |-> [id |-> "", name |-> "", rank |-> 0],
     status |-> [id |-> "", name |-> "", category |-> ""],
     services |-> <<>>, visibility |-> ""]

\* [exc, inc]: the Incident built from one element of the `incidents` array,
\* or the exception that leaves _parse_incident
ParseIncident(raw, clock) ==
    IF raw.k # "obj"
    THEN [exc |-> "AttributeError", inc |-> NoIncident]
    ELSE LET svc == ParseServices(raw.custom_field_entries)
             sev == ParseSeverity(raw.severity)
             sta == ParseStatus(raw.incident_status, raw.status)
             cre == ParseCreatedAt(raw.created_at, clock)
             upd == ParseUpdatedAt(raw.updated_at, cre.t)
             res == ParseResolvedAt(raw.resolved_at)
             id == Get(raw.id, JStr("unknown"))
             name == Get(raw.name, JStr("Unknown Incident"))
             visibility == Get(raw.visibility, JStr("private"))
             valid == /\ StrFieldOk(id) /\ StrFieldOk(name)
                      /\ OptStrFieldOk(raw.summary)
                      /\ OptStrFieldOk(raw.description)
                      /\ StrFieldOk(visibility)
             exc == FirstExc(<< svc.exc, sev.exc, sta.exc, cre.exc, upd.exc, res.exc,
                                IF valid THEN "none" ELSE "ValidationError" >>)
         IN  IF exc # "none"
             THEN [exc |-> exc, inc |-> NoIncident]
             ELSE [exc |-> "none",
                   inc |-> [id |-> id.s, name |-> name.s,
                            created_at |-> cre.t, updated_at |-> upd.t,
                            resolved_at |-> [some |-> res.some, t |-> res.t],
                            severity |-> sev.val, status |-> sta.val,
                            services |-> svc.svcs,
                            visibility |-> visibility.s]]

\* a filter that drops what is marked private instead of keeping what is public
IsPublicNotPrivate(incident) == incident.visibility # "private"

\* the filter of get_public_incidents_last_n_days
IsPublic(incident) == incident.visibility = "public"

(***************************************************************************)
(* Payloads of the incident API.                                           *)
(***************************************************************************)
SevObj(id, name, rank) ==
    [k |-> "obj", s |-> "", n |-> 0, id |-> id, name |-> name, rank |-> rank]

SevScalar(v) ==
    [k |-> v.k, s |-> v.s, n |-> v.n, id |-> JAbsent, name |-> JAbsent, rank |-> JAbsent]

StaObj(id, name, category) ==
    [k |-> "obj", s |-> "", n |-> 0, id |-> id, name |-> name, category |-> category]

StaScalar(v) ==
    [k |-> v.k, s |-> v.s, n |-> v.n, id |-> JAbsent, name |-> JAbsent,
     category |-> JAbsent]

CfeAbsent == [k |-> "absent", items |-> <<>>]
CfeNull == [k |-> "null", items |-> <<>>]
CfeList(items) == [k |-> "list", items |-> items]

\* a custom field value whose catalog entry names a service
SvcValue(id, name) ==
    [vce |-> TRUE, external_id |-> NStr(id), id |-> NAbsent, name |-> NStr(name),
     title |-> NAbsent]

\* the custom field entry of the affected services
SvcEntry(values) == [custom_field_id |-> JStr(SERVICE_FIELD_ID), values |-> values]

\* a well-formed public incident without services; "?" stands for the id the
\* position in the array gives it
BaseRaw ==
    [k |-> "obj", id |-> JStr("?"), name |-> JStr("outage"),
     summary |-> JAbsent, description |-> JNull,
     created_at |-> TsStr("isoZ", 1), updated_at |-> TsStr("iso", 1),
     resolved_at |-> JAbsent,
     severity |-> SevObj(JStr("sev1"), JStr("Major"), JInt(2)),
     incident_status |-> StaObj(JStr("st1"), JStr("Closed"), JStr("closed")),
     status |-> StaScalar(JAbsent),
     custom_field_entries |-> CfeList(<<>>),
     visibility |-> JStr("public")]

\* an element of the array that is no JSON object
NonObject(kind) == [BaseRaw EXCEPT !.k = kind]

Times == 0..MaxTime

VisibilityShapes ==
    {JAbsent, JNull, JStr("public"), JStr("private"), JStr("internal")}

SeverityShapes ==
    {SevObj(JStr("sev1"), JStr("Major"), JInt(2)), SevScalar(JAbsent), SevScalar(JNull), SevScalar(JStr("sev2")), SevScalar(JInt(3)),
     SevScalar(JInt(0)),
     SevObj(JAbsent, JAbsent, JAbsent), SevObj(JNull, JStr("Major"), JInt(2)),
     SevObj(JStr("sev1"), JStr("Major"), JStr("high")),
     SevObj(JStr("sev1"), JStr("Major"), JNull)}

StatusShapes ==
    {StaObj(JStr("st1"), JStr("Closed"), JStr("closed")), StaScalar(JAbsent), StaScalar(JNull), StaScalar(JStr("st2")),
     StaObj(JAbsent, JAbsent, JAbsent),
     StaObj(JStr("st1"), JStr("Closed"), JNull)}

TimestampShapes ==
    {JAbsent, JNull, JInt(5), TsStr("bad", 0), TsStr("", 0)}
        \cup {TsStr("iso", t) : t \in Times} \cup {TsStr("isoZ", t) : t \in Times}

ServicesShapes ==
    {CfeAbsent, CfeNull,
     CfeList(<< SvcEntry(<< SvcValue(<<"s","1">>, <<"a">>) >>) >>),
     CfeList(<< SvcEntry(<< SvcValue(<<"s","1">>, <<"a">>),
                            SvcValue(<<"s","2">>, <<"b">>) >>) >>),
     CfeList(<< [custom_field_id |-> JStr("F-other"),
                 values |-> << SvcValue(<<"s","1">>, <<"a">>) >>] >>),
     CfeList(<< SvcEntry(<< [vce |-> FALSE, external_id |-> NAbsent, id |-> NAbsent,
                             name |-> NAbsent, title |-> NAbsent] >>) >>),
     CfeList(<< SvcEntry(<< [vce |-> TRUE, external_id |-> NAbsent,
                             id |-> NStr(<<"s","3">>), name |-> NNull,
                             title |-> NStr(<<"c">>)] >>) >>),
     CfeList(<< SvcEntry(<< [vce |-> TRUE, external_id |-> NStr(<<"s","4">>),
                             id |-> NAbsent, name |-> NAbsent,
                             title |-> NAbsent] >>) >>),
     CfeList(<< SvcEntry(<< [vce |-> TRUE, external_id |-> NAbsent, id |-> NAbsent,
                             name |-> NStr(<<"a">>), title |-> NAbsent] >>) >>)}

\* the elements of an `incidents` array when the batch behaviour of the
\* incident adapter is explored: non-objects, records whose parse fails, and
\* well-formed records of every visibility
AdapterElements ==
    {NonObject("str"), NonObject("null")}
      \cup {[BaseRaw EXCEPT !.id = JNull],
            [BaseRaw EXCEPT !.summary = JInt(1)],
            [BaseRaw EXCEPT !.custom_field_entries = CfeNull],
            [BaseRaw EXCEPT !.created_at = JNull],
            [BaseRaw EXCEPT !.severity = SevObj(JStr("sev1"), JStr("Major"), JNull)]}
      \cup {[BaseRaw EXCEPT !.visibility = v] : v \in VisibilityShapes}

\* the elements when _parse_incident is explored field by field: every shape
\* of severity, of a status field and of the three timestamps, together
ParseElements ==
    {[BaseRaw EXCEPT !.id = v] : v \in {JAbsent, JNull}}
      \cup {[BaseRaw EXCEPT !.name = v] : v \in {JAbsent, JNull}}
      \cup {[BaseRaw EXCEPT !.summary = v] : v \in {JStr("text"), JInt(1)}}
      \cup {[BaseRaw EXCEPT !.visibility = v] : v \in VisibilityShapes}
      \cup {[BaseRaw EXCEPT !.custom_field_entries = v] : v \in ServicesShapes}
      \cup {[BaseRaw EXCEPT !.incident_status = StaScalar(JAbsent), !.status = v] :
               v \in StatusShapes \cup {StaScalar(JInt(4))}}
      \cup {[BaseRaw EXCEPT !.severity = v, !.incident_status = w] :
               v \in SeverityShapes, w \in StatusShapes}
      \cup {[BaseRaw EXCEPT !.created_at = c, !.updated_at = u, !.resolved_at = r] :
               c \in TimestampShapes, u \in TimestampShapes, r \in TimestampShapes}

\* the id of the i-th element of the array
IdOf(i) == CASE i = 1 -> "i1" [] i = 2 -> "i2" [] i = 3 -> "i3" [] OTHER -> "i4"

\* the array with an id of its own for each element
WithIds(a) ==
    [i \in 1..Len(a) |->
        IF a[i].id = JStr("?") THEN [a[i] EXCEPT !.id = JStr(IdOf(i))] ELSE a[i]]

(***************************************************************************)
(* CortexIOClient: the pure parts.                                         *)
(***************************************************************************)
\* the configured target scorecards: target id -> target name
TARGET_SCORECARDS == << [key |-> <<"t">>, val |-> <<"T","x">>] >>

RECURSIVE ParseServiceUniverse(_, _)
\* get_services: the services of the first scorecard's serviceScores, an
\* entry without a tag skipped, a tag kept once (`seen` is seen_services)
ParseServiceUniverse(entries, seen) ==
    IF entries = <<>>
    THEN <<>>
    ELSE LET e == Head(entries)
         IN  IF NTruthy(e.tag) /\ e.tag.s \notin seen
             THEN << [tag |-> e.tag.s, title |-> Get(e.name, e.tag).s] >>
                      \o ParseServiceUniverse(Tail(entries), seen \cup {e.tag.s})
             ELSE ParseServiceUniverse(Tail(entries), seen)

RECURSIVE TitleKeys(_, _)
\* {service.title.lower(): service.tag for service in all_services}
TitleKeys(all_services, d) ==
    IF all_services = <<>>
    THEN d
    ELSE TitleKeys(Tail(all_services),
                   DictSet(d, Lower(Head(all_services).title), Head(all_services).tag))

RECURSIVE TagKeys(_, _)
\* service_tag_map[service.tag.lower()] = service.tag, for every service
TagKeys(all_services, d) ==
    IF all_services = <<>>
    THEN d
    ELSE TagKeys(Tail(all_services),
                 DictSet(d, Lower(Head(all_services).tag), Head(all_services).tag))

\* service_tag_map of get_service_scorecards_by_names
ServiceTagMap(all_services) == TagKeys(all_services, TitleKeys(all_services, <<>>))

\* a scorecard of the listing is a target: its tag contains a target id, or
\* its lower-cased name contains a lower-cased target name
IsTarget(scorecard) ==
    \E i \in 1..Len(TARGET_SCORECARDS) :
        \/ IsSubstr(TARGET_SCORECARDS[i].key, scorecard.tag)
        \/ IsSubstr(Lower(TARGET_SCORECARDS[i].val), Lower(scorecard.name))

\* scorecard_tags: the tags of the target scorecards, in listing order
TargetTags(all_scorecards) ==
    LET kept == SelectSeq(all_scorecards, IsTarget)
    IN  [i \in 1..Len(kept) |-> kept[i].tag]

\* containment is looked for in one direction only
KeyMatchesOneWay(service_name_lower, name_key) ==
    IsSubstr(service_name_lower, name_key)

\* the name and a key of service_tag_map match
KeyMatches(service_name_lower, name_key) ==
    IsSubstr(service_name_lower, name_key) \/ IsSubstr(name_key, service_name_lower)

\* the tag a requested service name resolves to: << >> for None, else << tag >>
ResolveTag(service_tag_map, service_name) ==
    LET service_name_lower == Lower(service_name)
        hits == {i \in 1..Len(service_tag_map) :
                    KeyMatches(service_name_lower, service_tag_map[i].key)}
    IN  IF hits = {}
        THEN <<>>
        ELSE << service_tag_map[CHOOSE i \in hits : \A j \in hits : i <= j].val >>

RECURSIVE FirstResolved(_, _, _)
\* the first position from i on whose name resolves (Len + 1 when none does)
FirstResolved(service_names, service_tag_map, i) ==
    IF i > Len(service_names)
    THEN i
    ELSE IF ResolveTag(service_tag_map, service_names[i]) # <<>>
         THEN i
         ELSE FirstResolved(service_names, service_tag_map, i + 1)

RECURSIVE RuleInfoMap(_, _)
\* rule_info_map of get_service_scorecard: identifier -> title
RuleInfoMap(rules, d) ==
    IF rules = <<>>
    THEN d
    ELSE RuleInfoMap(Tail(rules),
                     DictSet(d, Head(rules).identifier,
                             Get(Head(rules).title, JStr(Head(rules).identifier)).s))

\* the current level: the name of the first ladder level that is not empty
CurrentLevel(ladder_levels) ==
    LET hits == {i \in 1..Len(ladder_levels) : ladder_levels[i].has_level}
    IN  IF hits = {}
        THEN JNull
        ELSE Get(ladder_levels[CHOOSE i \in hits : \A j \in hits : i <= j].name, JStr(""))

\* _parse_scorecard_from_service_score
ParseScorecardFromServiceScore(service_tag, scorecard_tag, service_score, rule_info_map) ==
    [service_tag |-> service_tag,
     scorecard_tag |-> scorecard_tag,
     scores |-> [i \in 1..Len(service_score.rules) |->
                   LET rule_score == service_score.rules[i]
                   IN  [title |-> IF HasKey(rule_info_map, rule_score.identifier)
                                  THEN DictGet(rule_info_map, rule_score.identifier)
                                  ELSE rule_score.identifier,
                        score |-> Get(rule_score.score, JNull)]],
     total_score |-> Get(service_score.summary_score, JNull),
     current_level |-> CurrentLevel(service_score.ladder_levels)]

\* the serviceScores entry get_service_scorecard returns the scorecard of:
\* << >> for None, else << the ServiceScorecard >>
FindServiceScore(service_tag, scorecard_tag, service_scores, rule_info_map) ==
    LET hits == {i \in 1..Len(service_scores) :
                    service_scores[i].tag = NStr(service_tag)}
    IN  IF hits = {}
        THEN <<>>
        ELSE << ParseScorecardFromServiceScore(
                    service_tag, scorecard_tag,
                    service_scores[CHOOSE i \in hits : \A j \in hits : i <= j],
                    rule_info_map) >>

RECURSIVE GroupScorecards(_, _)
\* get_target_scorecards_for_services: the scorecards under their service tag
GroupScorecards(all_scorecards, d) ==
    IF all_scorecards = <<>>
    THEN d
    ELSE LET sc == Head(all_scorecards)
             old == IF HasKey(d, sc.service_tag) THEN DictGet(d, sc.service_tag) ELSE <<>>
         IN  GroupScorecards(Tail(all_scorecards),
                             DictSet(d, sc.service_tag, Append(old, sc)))

(***************************************************************************)
(* IncidentServiceReporter: the pure parts.                                *)
(***************************************************************************)
RECURSIVE ServiceNames(_)
\* impacted_service_names: the names of the services the incidents list
ServiceNames(incidents) ==
    IF incidents = <<>>
    THEN {}
    ELSE {Head(incidents).services[i].name : i \in 1..Len(Head(incidents).services)}
            \cup ServiceNames(Tail(incidents))

\* only the first service of an incident gets the incident
AppendUnderFirst(d, services, incident) ==
    IF services = <<>>
    THEN d
    ELSE LET name == Head(services).name
             old == IF HasKey(d, name) THEN DictGet(d, name) ELSE <<>>
         IN  DictSet(d, name, Append(old, incident))

RECURSIVE AppendUnder(_, _, _)
\* service_incidents[service.name].append(incident), for the services of one
\* incident
AppendUnder(d, services, incident) ==
    IF services = <<>>
    THEN d
    ELSE LET name == Head(services).name
             old == IF HasKey(d, name) THEN DictGet(d, name) ELSE <<>>
         IN  AppendUnder(DictSet(d, name, Append(old, incident)), Tail(services), incident)

RECURSIVE GroupFrom(_, _)
GroupFrom(incidents, d) ==
    IF incidents = <<>>
    THEN d
    ELSE GroupFrom(Tail(incidents), AppendUnder(d, Head(incidents).services, Head(incidents)))

\* _group_incidents_by_service
GroupIncidentsByService(incidents) == GroupFrom(incidents, <<>>)

\* only a key equal to the name, whatever the case, matches
MatchScorecardsExactOnly(service_scorecard_map, service_name) ==
    LET keys == 1..Len(service_scorecard_map)
        exact == {i \in keys :
                     Lower(service_scorecard_map[i].key) = Lower(service_name)}
    IN  IF exact # {}
        THEN << service_scorecard_map[CHOOSE i \in exact : \A j \in exact : i <= j] >>
        ELSE <<>>

\* the scorecards of one grouped service, as << >> or << (tag, scorecards) >>:
\* the first key equal to the name whatever the case, else the first key that
\* contains the name or is contained in it
MatchScorecards(service_scorecard_map, service_name) ==
    LET keys == 1..Len(service_scorecard_map)
        exact == {i \in keys :
                     Lower(service_scorecard_map[i].key) = Lower(service_name)}
        fuzzy == {i \in keys :
                     \/ IsSubstr(Lower(service_name), Lower(service_scorecard_map[i].key))
                     \/ IsSubstr(Lower(service_scorecard_map[i].key), Lower(service_name))}
        First(hits) == CHOOSE i \in hits : \A j \in hits : i <= j
    IN  IF exact # {} /\ service_scorecard_map[First(exact)].val # <<>>
        THEN << service_scorecard_map[First(exact)] >>
        ELSE IF fuzzy # {}
             THEN << service_scorecard_map[First(fuzzy)] >>
             ELSE <<>>

\* the ServiceImpactReport of one group
ServiceReport(service_scorecard_map, service_name, incident_list) ==
    LET m == MatchScorecards(service_scorecard_map, service_name)
    IN  [service_name |-> service_name,
         service_tag |-> IF m # <<>> /\ m[1].key # <<>> THEN m[1].key ELSE service_name,
         incident_count |-> Len(incident_list),
         incidents |-> [i \in 1..Len(incident_list) |-> incident_list[i].id],
         scorecards |-> IF m # <<>> THEN m[1].val ELSE <<>>]

\* a sort by incident count that is ascending and then reversed: equal
\* counts come out in reverse order
RECURSIVE SortReversed(_)
SortReversed(reports) ==
    IF reports = <<>>
    THEN <<>>
    ELSE LET rest == SortReversed(Tail(reports))
             r == Head(reports)
             before == SelectSeq(rest, LAMBDA x : x.incident_count >= r.incident_count)
             after == SelectSeq(rest, LAMBDA x : x.incident_count < r.incident_count)
         IN  before \o << r >> \o after

RECURSIVE SortByCount(_)
\* service_reports.sort(key=incident_count, reverse=True): descending, and
\* stable (reverse=True keeps the original order of equal keys)
SortByCount(reports) ==
    IF reports = <<>>
    THEN <<>>
    ELSE LET rest == SortByCount(Tail(reports))
             r == Head(reports)
             before == SelectSeq(rest, LAMBDA x : x.incident_count > r.incident_count)
             after == SelectSeq(rest, LAMBDA x : x.incident_count <= r.incident_count)
         IN  before \o << r >> \o after

\* the services without scorecards are left out of the report
ServiceReportsMatchedOnly(service_scorecard_map, service_incidents_map) ==
    SelectSeq(SortByCount([i \in 1..Len(service_incidents_map) |->
                             ServiceReport(service_scorecard_map,
                                           service_incidents_map[i].key,
                                           service_incidents_map[i].val)]),
              LAMBDA r : r.scorecards # <<>>)

\* only the incidents that list a service are counted
TotalGrouped(incidents) ==
    Len(SelectSeq(incidents, LAMBDA inc : inc.services # <<>>))

\* total_incidents=len(incidents)
TotalIncidents(incidents) == Len(incidents)

\* the service reports of generate_report, sorted
ServiceReports(service_scorecard_map, service_incidents_map) ==
    SortByCount([i \in 1..Len(service_incidents_map) |->
                   ServiceReport(service_scorecard_map,
                                 service_incidents_map[i].key,
                                 service_incidents_map[i].val)])

(***************************************************************************)
(* State.                                                                  *)
(***************************************************************************)
VARIABLES
    pc,                    \* where the run is
    now,                   \* the wall clock, datetime.now()
    days,                  \* the lookback window asked for
    error,                 \* the exception that ended the run
    inflight,              \* the request awaiting its response ("none" between requests)
    requests,              \* every request issued, in order
    last_response,         \* the latest response, and what its handler did with it
    window,                \* start_date / end_date of get_public_incidents_last_n_days
    rawList,               \* data["incidents"] of the incident API response
    idx,                   \* position of the parse loop in rawList
    all_incidents,         \* incidents of get_incidents
    parseLog,              \* what the parse loop did with each element so far
    public_incidents,      \* the list get_public_incidents_last_n_days returns
    period,                \* start_date / end_date of generate_report
    service_names,         \* list(impacted_service_names)
    service_incidents_map, \* the groups of _group_incidents_by_service
    report,                \* << >>, or << the IncidentReport returned >>
    all_services,          \* the services of get_services
    service_tag_map,       \* lower-cased title or tag -> tag
    scorecard_tags,        \* the tags of the target scorecards
    ni,                    \* position of the loop over service_names
    si,                    \* position of the loop over scorecard_tags
    rule_info_map,         \* the rule titles of the scorecard being fetched
    service_scorecards,    \* the scorecards collected so far
    frozen,                \* the APIs answer a repeated request as they did before
    tape,                  \* the answers given so far, by request (when frozen)
    set_order,             \* << >>, or << the order this process lists the name set in >>
    run_no,                \* 1, or 2 for the second generate_report
    same_process,          \* the second run is made by the process of the first
    first_report,          \* << >>, or << the report of the first run >>
    stdout                 \* the lines print_report_summary has printed

runVars == << pc, now, days, error, inflight, requests, last_response >>

adapterVars == << window, rawList, idx, all_incidents, parseLog, public_incidents >>

reporterVars == << period, service_names, service_incidents_map, report >>

catalogVars == << all_services, service_tag_map, scorecard_tags, ni, si, rule_info_map,
                  service_scorecards >>

processVars == << frozen, set_order, run_no, same_process, first_report, stdout >>

vars == << runVars, adapterVars, reporterVars, catalogVars, processVars, tape >>

\* a request: the endpoint, and what its URL and query parameters carry
Request(kind, sc, svc, since, until) ==
    [kind |-> kind, sc |-> sc, svc |-> svc, since |-> since, until |-> until]

NoError == [exc |-> "none", status |-> 0]

\* what raise_for_status or the transport raises: an error status, or no
\* response at all
Failures ==
    {[exc |-> "HTTPStatusError", status |-> 404],
     [exc |-> "HTTPStatusError", status |-> 500],
     [exc |-> "ConnectError", status |-> 0]}

(***************************************************************************)
(* The two APIs.  Unless frozen, each request is answered afresh.          *)
(***************************************************************************)
\* the bodies a 2xx answer to the request `key` of `kind` can carry
OkBodies(kind, key, pool) ==
    IF frozen /\ HasKey(tape[kind], key)
    THEN IF DictGet(tape[kind], key).exc = "none"
         THEN {DictGet(tape[kind], key).body}
         ELSE {}
    ELSE pool

\* the failures the request can end in
FailuresOf(kind, key) ==
    IF frozen /\ HasKey(tape[kind], key)
    THEN IF DictGet(tape[kind], key).exc = "none"
         THEN {}
         ELSE {[exc |-> DictGet(tape[kind], key).exc,
                status |-> DictGet(tape[kind], key).status]}
    ELSE Failures

\* the tape after the answer
Taped(kind, key, exc, status, body) ==
    IF frozen
    THEN [tape EXCEPT ![kind] = DictSet(@, key, [exc |-> exc, status |-> status,
                                                 body |-> body])]
    ELSE tape

\* the log entry of an answer and of what the handler made of it
Answer(exc, status, outcome) == [exc |-> exc, status |-> status, outcome |-> outcome]

(***************************************************************************)
(* The wall clock.                                                         *)
(***************************************************************************)
\* the parse of this element reads datetime.now(): its created_at is missing
\* or is no ISO date
ReadsClock(raw) ==
    raw.k = "obj" /\ FromIso(raw.created_at).exc \in {"KeyError", "ValueError"}

\* the code is about to read datetime.now()
AtClockRead ==
    \/ pc \in {"report_start", "adapter_start", "build"}
    \/ pc = "parse" /\ idx <= Len(rawList) /\ ReadsClock(rawList[idx])

\* time passes
Tick ==
    /\ AtClockRead
    /\ now < MaxClock
    /\ now' = now + 1
    /\ UNCHANGED << pc, days, error, inflight, requests, last_response >>
    /\ UNCHANGED << adapterVars, reporterVars, catalogVars, processVars, tape >>

(***************************************************************************)
(* IncidentIOClient.get_public_incidents_last_n_days and get_incidents.    *)
(***************************************************************************)
\* the window [now - days, now]
AdapterStart ==
    /\ pc = "adapter_start"
    /\ window' = [start |-> now - days, end |-> now]
    /\ pc' = "inc_send"
    /\ UNCHANGED << now, days, error, inflight, requests, last_response >>
    /\ UNCHANGED << rawList, idx, all_incidents, parseLog, public_incidents >>
    /\ UNCHANGED << reporterVars, catalogVars, processVars, tape >>

\* GET /incidents with created_at[date_range] = "<since>~<until>"
SendIncidents ==
    /\ pc = "inc_send"
    /\ inflight = "none"
    /\ inflight' = "incidents"
    /\ requests' = Append(requests,
                          Request("incidents", <<>>, <<>>, window.start, window.end))
    /\ pc' = "inc_wait"
    /\ UNCHANGED << now, days, error, last_response >>
    /\ UNCHANGED << adapterVars, reporterVars, catalogVars, processVars, tape >>

\* a 2xx response whose `incidents` array holds at most MaxRaw of `elements`
ReceiveIncidents(elements) ==
    /\ pc = "inc_wait"
    /\ IF frozen /\ HasKey(tape["incidents"], <<>>)
       THEN /\ OkBodies("incidents", <<>>, {}) # {}
            /\ rawList' = DictGet(tape["incidents"], <<>>).body
            /\ tape' = tape
       ELSE \E m \in 0..MaxRaw :
               \E a \in [1..m -> elements] :
                  /\ rawList' = WithIds(a)
                  /\ tape' = Taped("incidents", <<>>, "none", 200, WithIds(a))
    /\ idx' = 1
    /\ all_incidents' = <<>>
    /\ parseLog' = <<>>
    /\ inflight' = "none"
    /\ last_response' = Answer("none", 200, "ok")
    /\ pc' = "parse"
    /\ UNCHANGED << now, days, error, requests, window, public_incidents >>
    /\ UNCHANGED << reporterVars, catalogVars, processVars >>

\* a non-2xx response or a transport error: logged and re-raised
IncidentsError ==
    /\ pc = "inc_wait"
    /\ \E f \in FailuresOf("incidents", <<>>) :
          /\ error' = f
          /\ last_response' = Answer(f.exc, f.status, "raise")
          /\ tape' = Taped("incidents", <<>>, f.exc, f.status, <<>>)
    /\ inflight' = "none"
    /\ pc' = "failed"
    /\ UNCHANGED << now, days, requests >>
    /\ UNCHANGED << adapterVars, reporterVars, catalogVars, processVars >>

\* one iteration of the parse loop.  The handler of a failed parse reads
\* incident_data.get('id'), which raises again when the element is no dict:
\* that exception reaches the outer handler, which re-raises it.
ParseNext ==
    /\ pc = "parse"
    /\ idx <= Len(rawList)
    /\ LET raw == rawList[idx]
           r == ParseIncident(raw, now)
           outcome == CASE r.exc = "none" -> "parsed"
                        [] raw.k = "obj" -> "skipped"
                        [] OTHER -> "raised"
       IN  /\ parseLog' = Append(parseLog,
                                 [raw |-> raw, outcome |-> outcome, exc |-> r.exc,
                                  inc |-> r.inc, clock |-> now])
           /\ all_incidents' = IF outcome = "parsed"
                               THEN Append(all_incidents, r.inc)
                               ELSE all_incidents
           /\ IF outcome = "raised"
              THEN /\ pc' = "failed"
                   /\ error' = [exc |-> "AttributeError", status |-> 0]
                   /\ idx' = idx
              ELSE /\ pc' = "parse"
                   /\ error' = error
                   /\ idx' = idx + 1
    /\ UNCHANGED << now, days, inflight, requests, last_response >>
    /\ UNCHANGED << window, rawList, public_incidents >>
    /\ UNCHANGED << reporterVars, catalogVars, processVars, tape >>

\* the loop is over: keep the public incidents and return them
FilterPublic ==
    /\ pc = "parse"
    /\ idx > Len(rawList)
    /\ public_incidents' = SelectSeq(all_incidents, IsPublic)
    /\ pc' = "returned"
    /\ UNCHANGED << now, days, error, inflight, requests, last_response >>
    /\ UNCHANGED << window, rawList, idx, all_incidents, parseLog >>
    /\ UNCHANGED << reporterVars, catalogVars, processVars, tape >>

(***************************************************************************)
(* Requests and failures, as every client method makes and meets them.     *)
(***************************************************************************)
\* `await client.get(...)`: the request leaves
Issue(from, req, to) ==
    /\ pc = from
    /\ inflight = "none"
    /\ inflight' = req.kind
    /\ requests' = Append(requests, req)
    /\ pc' = to
    /\ UNCHANGED << now, days, error, last_response >>
    /\ UNCHANGED << adapterVars, reporterVars, catalogVars, processVars, tape >>

\* the request fails and the exception leaves the method: the run is over
Raise(from, kind, key, f) ==
    /\ pc = from
    /\ f \in FailuresOf(kind, key)
    /\ error' = f
    /\ last_response' = Answer(f.exc, f.status, "raise")
    /\ tape' = Taped(kind, key, f.exc, f.status, <<>>)
    /\ inflight' = "none"
    /\ pc' = "failed"
    /\ UNCHANGED << now, days, requests >>
    /\ UNCHANGED << adapterVars, reporterVars, catalogVars, processVars >>

(***************************************************************************)
(* IncidentServiceReporter.generate_report, up to the catalog lookup.      *)
(***************************************************************************)
\* the report period [now - lookback_days, now]
GenerateStart ==
    /\ pc = "report_start"
    /\ period' = [start |-> now - days, end |-> now]
    /\ pc' = "adapter_start"
    /\ UNCHANGED << now, days, error, inflight, requests, last_response >>
    /\ UNCHANGED << service_names, service_incidents_map, report >>
    /\ UNCHANGED << adapterVars, catalogVars, tape >>
    /\ UNCHANGED processVars

\* the orders list(impacted_service_names) can come out in: the iteration
\* order of a set of str is fixed within a process and differs between them
ListingOrders(names) ==
    IF set_order # <<>> /\ Range(set_order[1]) = names
    THEN {set_order[1]}
    ELSE Orders(names)

\* the incidents are back and the locals of the adapter are gone: the
\* impacted service names, the groups, and the call of
\* get_target_scorecards_for_services
Group ==
    /\ pc = "returned"
    /\ \E order \in ListingOrders(ServiceNames(public_incidents)) :
          /\ service_names' = order
          /\ set_order' = << order >>
    /\ service_incidents_map' = GroupIncidentsByService(public_incidents)
    /\ rawList' = <<>>
    /\ idx' = 1
    /\ all_incidents' = <<>>
    /\ parseLog' = <<>>
    /\ pc' = "svc_list_send"
    /\ UNCHANGED << now, days, error, inflight, requests, last_response >>
    /\ UNCHANGED << window, public_incidents >>
    /\ UNCHANGED << period, report, frozen, run_no, same_process, first_report, stdout >>
    /\ UNCHANGED << catalogVars, tape >>

(***************************************************************************)
(* CortexIOClient.get_services.                                            *)
(***************************************************************************)
\* GET /scorecards
SendServicesList ==
    Issue("svc_list_send", Request("scorecards", <<>>, <<>>, 0, 0), "svc_list_wait")

\* the scorecards are listed: without any there are no services, else the
\* scores of the first are asked for
ReceiveServicesList(lists) ==
    /\ pc = "svc_list_wait"
    /\ \E body \in OkBodies("scorecards", <<>>, lists) :
          /\ tape' = Taped("scorecards", <<>>, "none", 200, body)
          /\ IF body = <<>>
             THEN /\ pc' = "sc_list_send"
                  /\ scorecard_tags' = <<>>
             ELSE /\ pc' = "svc_scores_send"
                  /\ scorecard_tags' = << body[1].tag >>
    /\ all_services' = <<>>
    /\ service_tag_map' = ServiceTagMap(<<>>)
    /\ inflight' = "none"
    /\ last_response' = Answer("none", 200, "ok")
    /\ UNCHANGED << now, days, error, requests >>
    /\ UNCHANGED << ni, si, rule_info_map, service_scorecards >>
    /\ UNCHANGED << adapterVars, reporterVars, processVars >>

\* GET /scorecards/{tag}/scores?pageSize=1000
SendServiceUniverse ==
    Issue("svc_scores_send", Request("universe", scorecard_tags[1], <<>>, 0, 0),
          "svc_scores_wait")

\* the service universe, and the tag map built from it
ReceiveServiceUniverse(lists) ==
    /\ pc = "svc_scores_wait"
    /\ \E body \in OkBodies("universe", scorecard_tags[1], lists) :
          /\ tape' = Taped("universe", scorecard_tags[1], "none", 200, body)
          /\ all_services' = ParseServiceUniverse(body, {})
          /\ service_tag_map' = ServiceTagMap(ParseServiceUniverse(body, {}))
    /\ scorecard_tags' = <<>>
    /\ inflight' = "none"
    /\ last_response' = Answer("none", 200, "ok")
    /\ pc' = "sc_list_send"
    /\ UNCHANGED << now, days, error, requests >>
    /\ UNCHANGED << ni, si, rule_info_map, service_scorecards >>
    /\ UNCHANGED << adapterVars, reporterVars, processVars >>

\* either request of get_services fails: logged and re-raised, 404 included
ServicesError ==
    \E f \in Failures :
        \/ Raise("svc_list_wait", "scorecards", <<>>, f)
        \/ Raise("svc_scores_wait", "universe", scorecard_tags[1], f)

(***************************************************************************)
(* CortexIOClient.get_scorecards and the loop of                           *)
(* get_service_scorecards_by_names.                                        *)
(***************************************************************************)
\* GET /scorecards
SendScorecards ==
    Issue("sc_list_send", Request("scorecards", <<>>, <<>>, 0, 0), "sc_list_wait")

\* only the first target scorecard of a service is fetched
AfterPairFirstOnly(i, j) ==
    << FirstResolved(service_names, service_tag_map, i + 1), 1 >>

\* where the loops stand after the pair (i, j): the next scorecard of the
\* same service, or the first scorecard of the next name that resolves
AfterPair(i, j) ==
    IF j < Len(scorecard_tags)
    THEN << i, j + 1 >>
    ELSE << FirstResolved(service_names, service_tag_map, i + 1), 1 >>

\* the listing is back: the target scorecards, and the first pair to fetch
ReceiveScorecards(lists) ==
    /\ pc = "sc_list_wait"
    /\ \E body \in OkBodies("scorecards", <<>>, lists) :
          /\ tape' = Taped("scorecards", <<>>, "none", 200, body)
          /\ scorecard_tags' = TargetTags(body)
          /\ ni' = FirstResolved(service_names, service_tag_map, 1)
          /\ pc' = IF TargetTags(body) = <<>>
                      \/ FirstResolved(service_names, service_tag_map, 1) > Len(service_names)
                   THEN "build"
                   ELSE "def_send"
    /\ si' = 1
    /\ service_scorecards' = <<>>
    /\ inflight' = "none"
    /\ last_response' = Answer("none", 200, "ok")
    /\ UNCHANGED << now, days, error, requests >>
    /\ UNCHANGED << all_services, service_tag_map, rule_info_map >>
    /\ UNCHANGED << adapterVars, reporterVars, processVars >>

\* get_scorecards has no handler: any failure leaves it
ScorecardsError ==
    \E f \in Failures : Raise("sc_list_wait", "scorecards", <<>>, f)

(***************************************************************************)
(* CortexIOClient.get_service_scorecard, for the pair the loops stand at.  *)
(***************************************************************************)
\* the tag the current name resolved to
CurrentServiceTag == ResolveTag(service_tag_map, service_names[ni])[1]

CurrentScorecardTag == scorecard_tags[si]

\* GET /scorecards/{scorecard_tag}
SendDefinition ==
    Issue("def_send", Request("def", CurrentScorecardTag, CurrentServiceTag, 0, 0),
          "def_wait")

\* the rule titles of the scorecard
ReceiveDefinition(bodies) ==
    /\ pc = "def_wait"
    /\ \E body \in OkBodies("def", CurrentScorecardTag, bodies) :
          /\ tape' = Taped("def", CurrentScorecardTag, "none", 200, body)
          /\ rule_info_map' = RuleInfoMap(body, <<>>)
    /\ inflight' = "none"
    /\ last_response' = Answer("none", 200, "ok")
    /\ pc' = "score_send"
    /\ UNCHANGED << now, days, error, requests >>
    /\ UNCHANGED << all_services, service_tag_map, scorecard_tags, ni, si,
                    service_scorecards >>
    /\ UNCHANGED << adapterVars, reporterVars, processVars >>

\* GET /scorecards/{scorecard_tag}/scores?entityTag={service_tag}
SendScores ==
    Issue("score_send", Request("scores", CurrentScorecardTag, CurrentServiceTag, 0, 0),
          "score_wait")

\* get_service_scorecard is left and the loops move on past the current pair
MoveOn ==
    /\ rule_info_map' = <<>>
    /\ ni' = AfterPair(ni, si)[1]
    /\ si' = AfterPair(ni, si)[2]
    /\ pc' = IF AfterPair(ni, si)[1] > Len(service_names) THEN "build" ELSE "def_send"

\* the scores are back: the scorecard of the service, if it has an entry, is
\* collected
ReceiveScores(bodies) ==
    /\ pc = "score_wait"
    /\ \E body \in OkBodies("scores", << CurrentScorecardTag, CurrentServiceTag >>,
                            bodies) :
          /\ tape' = Taped("scores", << CurrentScorecardTag, CurrentServiceTag >>,
                           "none", 200, body)
          /\ service_scorecards' =
                service_scorecards \o FindServiceScore(CurrentServiceTag,
                                                       CurrentScorecardTag,
                                                       body, rule_info_map)
          /\ last_response' =
                Answer("none", 200,
                       IF FindServiceScore(CurrentServiceTag, CurrentScorecardTag,
                                           body, rule_info_map) = <<>>
                       THEN "none" ELSE "ok")
    /\ MoveOn
    /\ inflight' = "none"
    /\ UNCHANGED << now, days, error, requests >>
    /\ UNCHANGED << all_services, service_tag_map, scorecard_tags >>
    /\ UNCHANGED << adapterVars, reporterVars, processVars >>

\* every HTTP error status is taken for "not found"
IsNotFoundAnyStatus(f) == f.exc = "HTTPStatusError"

\* e.response.status_code == 404, in the handler of HTTPStatusError
IsNotFound(f) == f.exc = "HTTPStatusError" /\ f.status = 404

\* the key the tape holds the answer to the request in flight under
PairKey == IF pc = "def_wait"
           THEN CurrentScorecardTag
           ELSE << CurrentScorecardTag, CurrentServiceTag >>

PairKind == IF pc = "def_wait" THEN "def" ELSE "scores"

\* a 404 on either request: None is returned and the loops move on
ScorecardNotFound ==
    /\ pc \in {"def_wait", "score_wait"}
    /\ \E f \in FailuresOf(PairKind, PairKey) :
          /\ IsNotFound(f)
          /\ last_response' = Answer(f.exc, f.status, "none")
          /\ tape' = Taped(PairKind, PairKey, f.exc, f.status, <<>>)
    /\ MoveOn
    /\ inflight' = "none"
    /\ UNCHANGED << now, days, error, requests >>
    /\ UNCHANGED << all_services, service_tag_map, scorecard_tags, service_scorecards >>
    /\ UNCHANGED << adapterVars, reporterVars, processVars >>

\* any other status, or a transport error, is raised again
ScorecardError ==
    /\ pc \in {"def_wait", "score_wait"}
    /\ \E f \in Failures :
          /\ ~IsNotFound(f)
          /\ Raise(pc, PairKind, PairKey, f)

(***************************************************************************)
(* The rest of generate_report.                                            *)
(***************************************************************************)
\* the scorecards are grouped by service tag, the service reports are built
\* and sorted, and the report is returned
BuildReport ==
    /\ pc = "build"
    /\ report' = << [report_generated_at |-> now,
                     period_start |-> period.start,
                     period_end |-> period.end,
                     total_incidents |-> TotalIncidents(public_incidents),
                     impacted_services |->
                        ServiceReports(GroupScorecards(service_scorecards, <<>>),
                                       service_incidents_map)] >>
    /\ pc' = "done"
    /\ UNCHANGED << now, days, error, inflight, requests, last_response >>
    /\ UNCHANGED << period, service_names, service_incidents_map >>
    /\ UNCHANGED << adapterVars, catalogVars, processVars, tape >>

(***************************************************************************)
(* IncidentServiceReporter.print_report_summary.  A printed line is a      *)
(* record: what kind of line it is and the values formatted into it.       *)
(***************************************************************************)
MAX_SERVICES_DISPLAYED == 15

MAX_FAILING_RULES_DISPLAYED == 5

\* the labels of the scorecards, by scorecard tag
SCORECARD_DISPLAY_NAMES == << [key |-> <<"t","1">>, val |-> <<"O","n","e">>] >>

\* c.upper() for the characters of the model
UpperChar(c) == CASE c = "a" -> "A" [] c = "b" -> "B" [] c = "c" -> "C"
                  [] c = "t" -> "T" [] c = "x" -> "X" [] OTHER -> c

\* the character is a cased letter
IsCased(c) == LowerChar(c) # c \/ UpperChar(c) # c

\* s.replace("-", " ")
DashToSpace(str) == [i \in 1..Len(str) |-> IF str[i] = "-" THEN " " ELSE str[i]]

\* s.title(): a letter after a cased letter is lower-cased, any other letter
\* is upper-cased
TitleCase(str) ==
    [i \in 1..Len(str) |->
        IF i > 1 /\ IsCased(str[i - 1]) THEN LowerChar(str[i]) ELSE UpperChar(str[i])]

\* SCORECARD_DISPLAY_NAMES.get(tag, tag.replace("-", " ").title())
ScorecardName(scorecard_tag) ==
    IF HasKey(SCORECARD_DISPLAY_NAMES, scorecard_tag)
    THEN DictGet(SCORECARD_DISPLAY_NAMES, scorecard_tag)
    ELSE TitleCase(DashToSpace(scorecard_tag))

\* seq[:n]
Take(seq, n) == SubSeq(seq, 1, IF Len(seq) < n THEN Len(seq) ELSE n)

\* a printed line; score and level are << >> when the line shows none
Line(kind, num, text, score, level) ==
    [kind |-> kind, num |-> num, text |-> text, score |-> score, level |-> level]

\* a score is failing unless it is above 1.0
IsFailingUpToOne(score) == score.score.k # "null" /\ score.score.n <= 10

\* score.score is not None and score.score < 1.0 (scores are in tenths)
IsFailing(score) == score.score.k # "null" /\ score.score.n < 10

\* "• {title}: {score.score or 0:.1f}"
RuleLine(score) ==
    Line("rule", 0, score.title,
         << IF Truthy(score.score) THEN score.score.n ELSE 0 >>, <<>>)

\* the lines of one scorecard: its name with "Score: .. | Level: ..", and
\* the first failing rules under their heading
ScorecardLines(scorecard) ==
    LET scorecard_name == ScorecardName(scorecard.scorecard_tag)
        score_info == IF scorecard.total_score.k # "null"
                      THEN << scorecard.total_score.n >> ELSE <<>>
        level_info == IF Truthy(scorecard.current_level)
                      THEN << scorecard.current_level.s >> ELSE <<>>
        failing_scores == SelectSeq(scorecard.scores, IsFailing)
        shown == Take(failing_scores, MAX_FAILING_RULES_DISPLAYED)
    IN  << Line("scorecard", 0, scorecard_name, score_info, level_info) >>
           \o (IF failing_scores # <<>>
               THEN << Line("failing", 0, scorecard_name, <<>>, <<>>) >>
                       \o [k \in 1..Len(shown) |-> RuleLine(shown[k])]
               ELSE <<>>)

RECURSIVE AllScorecardLines(_)
\* for scorecard in service_report.scorecards
AllScorecardLines(scorecards) ==
    IF scorecards = <<>>
    THEN <<>>
    ELSE ScorecardLines(Head(scorecards)) \o AllScorecardLines(Tail(scorecards))

\* the lines of the i-th displayed service
ServiceLines(i, service_report) ==
    << Line("service", i, service_report.service_name, <<>>, <<>>),
       Line("incidents", service_report.incident_count, <<>>, <<>>, <<>>) >>
       \o (IF service_report.scorecards # <<>>
           THEN AllScorecardLines(service_report.scorecards)
           ELSE << Line("no_data", 0, <<>>, <<>>, <<>>) >>)
       \o << Line("blank", 0, <<>>, <<>>, <<>>) >>

RECURSIVE DisplayedLines(_, _)
\* for i, service_report in enumerate(displayed, 1), from i on
DisplayedLines(displayed, i) ==
    IF i > Len(displayed)
    THEN <<>>
    ELSE ServiceLines(i, displayed[i]) \o DisplayedLines(displayed, i + 1)

\* everything print_report_summary prints; the clock of the model counts
\* days, so a datetime is its own %Y-%m-%d date
Summary(r) ==
    << Line("blank", 0, <<>>, <<>>, <<>>),
       Line("bar", 0, <<>>, <<>>, <<>>),
       Line("title", 0, <<>>, <<>>, <<>>),
       Line("bar", 0, <<>>, <<>>, <<>>),
       Line("period", 0, << r.period_start, r.period_end >>, <<>>, <<>>),
       Line("total", r.total_incidents, <<>>, <<>>, <<>>),
       Line("impacted", Len(r.impacted_services), <<>>, <<>>, <<>>),
       Line("blank", 0, <<>>, <<>>, <<>>),
       Line("bar", 0, <<>>, <<>>, <<>>),
       Line("heading", 0, <<>>, <<>>, <<>>),
       Line("bar", 0, <<>>, <<>>, <<>>) >>
       \o DisplayedLines(Take(r.impacted_services, MAX_SERVICES_DISPLAYED), 1)
       \o (IF Len(r.impacted_services) > MAX_SERVICES_DISPLAYED
           THEN << Line("more", Len(r.impacted_services) - MAX_SERVICES_DISPLAYED,
                        <<>>, <<>>, <<>>) >>
           ELSE <<>>)
       \o << Line("blank", 0, <<>>, <<>>, <<>>),
             Line("bar", 0, <<>>, <<>>, <<>>) >>

\* main prints the report generate_report returned
PrintReportSummary ==
    /\ pc = "done"
    /\ stdout' = Summary(report[1])
    /\ pc' = "printed"
    /\ UNCHANGED << now, days, error, inflight, requests, last_response >>
    /\ UNCHANGED << adapterVars, reporterVars, catalogVars, tape >>
    /\ UNCHANGED << frozen, set_order, run_no, same_process, first_report >>

(***************************************************************************)
(* Payloads of a report run.                                               *)
(***************************************************************************)
\* the service names the incidents of a report run carry
NamePool == { <<"A","b">>, <<"b">>, <<"c">> }

\* the lists of at most n elements of S
Lists(S, n) == UNION {[1..m -> S] : m \in 0..n}

\* a public incident that lists the services of these names
IncidentWith(names) ==
    [BaseRaw EXCEPT !.custom_field_entries =
        CfeList(<< SvcEntry([i \in 1..Len(names) |->
                               SvcValue(<<"s">> \o names[i], names[i])]) >>)]

\* the affected services of the incidents of a whole run
ReportServices ==
    {<<>>, << <<"A","b">>, <<"b">> >>, << <<"b">>, <<"c">> >>, << <<"c">>, <<"c">> >>}

ReportElements ==
    {NonObject("str"),
     [IncidentWith(<< <<"b">> >>) EXCEPT !.visibility = JStr("private")]}
      \cup {IncidentWith(names) : names \in ReportServices}

\* the scorecards the catalog lists
ScorecardPool ==
    {[tag |-> <<"t","1">>, name |-> <<"o">>],
     [tag |-> <<"T">>, name |-> <<"o">>]}

\* the serviceScores entries of the service universe
UniversePool ==
    {[tag |-> NStr(<<"a","b">>), name |-> NAbsent],
     [tag |-> NStr(<<"z">>), name |-> NStr(<<"C">>)],
     [tag |-> NAbsent, name |-> NStr(<<"b">>)]}

\* the rules a scorecard definition carries
DefinitionBodies ==
    {<< [identifier |-> "r1", title |-> JStr("Rule one")] >>}

\* the serviceScores entry of a service: one rule scoring 0.5 (scores are in
\* tenths), a summary score and a ladder level
ScoreEntry(tag) ==
    [tag |-> NStr(tag),
     rules |-> << [identifier |-> "r1", score |-> JInt(5)] >>,
     summary_score |-> JInt(5),
     ladder_levels |-> << [has_level |-> TRUE, name |-> JStr("Gold")] >>]

\* the serviceScores a scores request for the service can be answered with
ScoresBodies(tag) ==
    {<<>>, << ScoreEntry(tag) >>, << ScoreEntry(<<"o">>), ScoreEntry(tag) >>}

(***************************************************************************)
(* One run of generate_report.                                             *)
(***************************************************************************)
NoTape == [incidents |-> <<>>, scorecards |-> <<>>, universe |-> <<>>,
           def |-> <<>>, scores |-> <<>>]

\* the state a process is in before a call at `start`, the incident adapter
\* having returned `incidents` so far
InitAt(start, incidents) ==
    /\ pc = start
    /\ now = 0
    /\ days \in 1..MaxDays
    /\ error = NoError
    /\ inflight = "none"
    /\ requests = <<>>
    /\ last_response = Answer("none", 0, "none")
    /\ window = [start |-> 0, end |-> 0]
    /\ rawList = <<>>
    /\ idx = 1
    /\ all_incidents = <<>>
    /\ parseLog = <<>>
    /\ public_incidents = incidents
    /\ period = [start |-> 0, end |-> 0]
    /\ service_names = <<>>
    /\ service_incidents_map = <<>>
    /\ report = <<>>
    /\ all_services = <<>>
    /\ service_tag_map = <<>>
    /\ scorecard_tags = <<>>
    /\ ni = 1
    /\ si = 1
    /\ rule_info_map = <<>>
    /\ service_scorecards = <<>>
    /\ tape = NoTape
    /\ set_order = <<>>
    /\ run_no = 1
    /\ same_process = TRUE
    /\ first_report = <<>>
    /\ stdout = <<>>

Init == InitAt("report_start", <<>>) /\ frozen = FALSE

\* the steps of a run
Run ==
    \/ Tick
    \/ GenerateStart
    \/ AdapterStart
    \/ SendIncidents
    \/ ReceiveIncidents(ReportElements)
    \/ IncidentsError
    \/ ParseNext
    \/ FilterPublic
    \/ Group
    \/ SendServicesList
    \/ ReceiveServicesList(Lists(ScorecardPool, MaxScorecards))
    \/ SendServiceUniverse
    \/ ReceiveServiceUniverse(Lists(UniversePool, MaxCatalog))
    \/ ServicesError
    \/ SendScorecards
    \/ ReceiveScorecards(Lists(ScorecardPool, MaxScorecards))
    \/ ScorecardsError
    \/ SendDefinition
    \/ ReceiveDefinition(DefinitionBodies)
    \/ SendScores
    \/ ReceiveScores(ScoresBodies(CurrentServiceTag))
    \/ ScorecardNotFound
    \/ ScorecardError
    \/ BuildReport

Next == Run

Spec == Init /\ [][Next]_vars

(***************************************************************************)
(* Two consecutive runs of generate_report against frozen APIs: a request  *)
(* the APIs have answered before is answered the same way again.           *)
(***************************************************************************)
\* the incidents of the two runs
TwiceElements ==
    {[IncidentWith(<< <<"b">> >>) EXCEPT !.visibility = JStr("private")],
     IncidentWith(<< <<"A","b">>, <<"b">> >>)}

\* the serviceScores entries of the service universe of the two runs
TwiceUniverse ==
    {[tag |-> NStr(<<"a">>), name |-> NAbsent],
     [tag |-> NStr(<<"b">>), name |-> NAbsent]}

\* the serviceScores a scores request is answered with in the two runs
TwiceScores(tag) == {<<>>, << ScoreEntry(tag) >>}

\* the first run has returned its report and generate_report is called
\* again, by the same process or by a new one (as main.py does, that makes
\* one report per process)
Rerun ==
    /\ pc = "done"
    /\ run_no = 1
    /\ first_report' = report
    /\ run_no' = 2
    /\ \E same \in BOOLEAN :
          /\ same_process' = same
          /\ set_order' = IF same THEN set_order ELSE <<>>
    /\ pc' = "report_start"
    /\ requests' = <<>>
    /\ last_response' = Answer("none", 0, "none")
    /\ window' = [start |-> 0, end |-> 0]
    /\ rawList' = <<>>
    /\ idx' = 1
    /\ all_incidents' = <<>>
    /\ parseLog' = <<>>
    /\ public_incidents' = <<>>
    /\ period' = [start |-> 0, end |-> 0]
    /\ service_names' = <<>>
    /\ service_incidents_map' = <<>>
    /\ report' = <<>>
    /\ all_services' = <<>>
    /\ service_tag_map' = <<>>
    /\ scorecard_tags' = <<>>
    /\ ni' = 1
    /\ si' = 1
    /\ rule_info_map' = <<>>
    /\ service_scorecards' = <<>>
    /\ UNCHANGED << now, days, error, inflight, frozen, tape, stdout >>

InitTwice == InitAt("report_start", <<>>) /\ frozen = TRUE

NextTwice ==
    \/ Tick
    \/ GenerateStart
    \/ AdapterStart
    \/ SendIncidents
    \/ ReceiveIncidents(TwiceElements)
    \/ IncidentsError
    \/ ParseNext
    \/ FilterPublic
    \/ Group
    \/ SendServicesList
    \/ ReceiveServicesList(Lists(ScorecardPool, MaxScorecards))
    \/ SendServiceUniverse
    \/ ReceiveServiceUniverse(Lists(TwiceUniverse, MaxCatalog))
    \/ ServicesError
    \/ SendScorecards
    \/ ReceiveScorecards(Lists(ScorecardPool, MaxScorecards))
    \/ ScorecardsError
    \/ SendDefinition
    \/ ReceiveDefinition(DefinitionBodies)
    \/ SendScores
    \/ ReceiveScores(TwiceScores(CurrentServiceTag))
    \/ ScorecardNotFound
    \/ ScorecardError
    \/ BuildReport
    \/ Rerun

SpecTwice == InitTwice /\ [][NextTwice]_vars

(***************************************************************************)
(* The incident adapter alone: one call of                                 *)
(* get_public_incidents_last_n_days(days).                                 *)
(***************************************************************************)
InitAdapter == InitAt("adapter_start", <<>>) /\ frozen = FALSE

NextAdapter ==
    \/ Tick
    \/ AdapterStart
    \/ SendIncidents
    \/ ReceiveIncidents(AdapterElements)
    \/ IncidentsError
    \/ ParseNext
    \/ FilterPublic

SpecAdapter == InitAdapter /\ [][NextAdapter]_vars

(***************************************************************************)
(* _parse_incident alone: get_incidents has received an array of one       *)
(* element and is about to parse it.                                       *)
(***************************************************************************)
InitParse ==
    /\ pc = "parse"
    /\ now = 0
    /\ days \in 1..MaxDays
    /\ error = NoError
    /\ inflight = "none"
    /\ requests = << Request("incidents", <<>>, <<>>, 0 - days, 0) >>
    /\ last_response = Answer("none", 200, "ok")
    /\ window = [start |-> 0 - days, end |-> 0]
    /\ \E e \in ParseElements : rawList = WithIds(<< e >>)
    /\ idx = 1
    /\ all_incidents = <<>>
    /\ parseLog = <<>>
    /\ public_incidents = <<>>
    /\ period = [start |-> 0, end |-> 0]
    /\ service_names = <<>>
    /\ service_incidents_map = <<>>
    /\ report = <<>>
    /\ all_services = <<>>
    /\ service_tag_map = <<>>
    /\ scorecard_tags = <<>>
    /\ ni = 1
    /\ si = 1
    /\ rule_info_map = <<>>
    /\ service_scorecards = <<>>
    /\ frozen = FALSE
    /\ tape = NoTape
    /\ set_order = <<>>
    /\ run_no = 1
    /\ same_process = TRUE
    /\ first_report = <<>>
    /\ stdout = <<>>

NextParse ==
    \/ Tick
    \/ ParseNext
    \/ FilterPublic

SpecParse == InitParse /\ [][NextParse]_vars

(***************************************************************************)
(* _group_incidents_by_service alone: the adapter has returned a list of   *)
(* public incidents and generate_report is about to group it.              *)
(***************************************************************************)
\* the public elements that list services of NamePool
GroupElements == {IncidentWith(names) : names \in Lists(NamePool, MaxAffected)}

\* the incidents _parse_incident builds from an array of elements
Parsed(array) == [i \in 1..Len(array) |-> ParseIncident(array[i], 0).inc]

InitGroup ==
    /\ \E m \in 0..MaxRaw :
          \E a \in [1..m -> GroupElements] : InitAt("returned", Parsed(WithIds(a)))
    /\ frozen = FALSE

NextGroup == Group

SpecGroup == InitGroup /\ [][NextGroup]_vars

(***************************************************************************)
(* The catalog adapter alone: one call of                                  *)
(* get_target_scorecards_for_services(service_names), the catalog          *)
(* answering a repeated request the same way.                              *)
(***************************************************************************)
\* the service names a caller asks for
CatalogNames == { <<"A","b">>, <<"b">>, <<"c">>, <<"d">> }

\* the serviceScores entries of the service universe
CatalogUniverse ==
    {[tag |-> NStr(<<"a","b">>), name |-> NAbsent],
     [tag |-> NStr(<<"a","b">>), name |-> NStr(<<"C">>)],
     [tag |-> NStr(<<"z">>), name |-> NStr(<<"C">>)],
     [tag |-> NStr(<<"y">>), name |-> NStr(<<"b">>)]}

\* the scorecards the catalog lists
CatalogScorecards ==
    {[tag |-> <<"t","1">>, name |-> <<"o">>],
     [tag |-> <<"T">>, name |-> <<"o">>],
     [tag |-> <<"q">>, name |-> <<"t","X">>],
     [tag |-> <<"n">>, name |-> <<"o">>]}

\* list(impacted_service_names): the names of a set, each once
Distinct(seq) == \A i, j \in 1..Len(seq) : i # j => seq[i] # seq[j]

InitCatalog ==
    /\ pc = "svc_list_send"
    /\ now = 0
    /\ days = 1
    /\ error = NoError
    /\ inflight = "none"
    /\ requests = <<>>
    /\ last_response = Answer("none", 0, "none")
    /\ window = [start |-> 0, end |-> 0]
    /\ rawList = <<>>
    /\ idx = 1
    /\ all_incidents = <<>>
    /\ parseLog = <<>>
    /\ public_incidents = <<>>
    /\ period = [start |-> 0, end |-> 0]
    /\ \E m \in 0..MaxNames :
          \E names \in [1..m -> CatalogNames] :
              /\ Distinct(names)
              /\ service_names = names
    /\ service_incidents_map = <<>>
    /\ report = <<>>
    /\ all_services = <<>>
    /\ service_tag_map = <<>>
    /\ scorecard_tags = <<>>
    /\ ni = 1
    /\ si = 1
    /\ rule_info_map = <<>>
    /\ service_scorecards = <<>>
    /\ frozen = TRUE
    /\ tape = NoTape
    /\ set_order = <<>>
    /\ run_no = 1
    /\ same_process = TRUE
    /\ first_report = <<>>
    /\ stdout = <<>>

NextCatalog ==
    \/ SendServicesList
    \/ ReceiveServicesList(Lists(CatalogScorecards, MaxScorecards))
    \/ SendServiceUniverse
    \/ ReceiveServiceUniverse(Lists(CatalogUniverse, MaxCatalog))
    \/ ServicesError
    \/ SendScorecards
    \/ ReceiveScorecards(Lists(CatalogScorecards, MaxScorecards))
    \/ ScorecardsError
    \/ SendDefinition
    \/ ReceiveDefinition(DefinitionBodies)
    \/ SendScores
    \/ ReceiveScores(ScoresBodies(CurrentServiceTag))
    \/ ScorecardNotFound
    \/ ScorecardError

SpecCatalog == InitCatalog /\ [][NextCatalog]_vars

(***************************************************************************)
(* print_report_summary alone: generate_report has returned a report and   *)
(* main prints it.                                                         *)
(***************************************************************************)
\* the scores a rule of a printed scorecard can carry, in tenths, or none
ScoreValues == {JNull, JInt(0), JInt(5), JInt(10)}

\* a ServiceScorecard with these rule scores, the k-th rule titled str(k)
PrintedScorecard(scorecard_tag, values) ==
    [service_tag |-> <<"s">>,
     scorecard_tag |-> scorecard_tag,
     scores |-> [k \in 1..Len(values) |-> [title |-> IntStr(k), score |-> values[k]]],
     total_score |-> IF values = <<>> THEN JNull ELSE values[1],
     current_level |-> IF Len(values) % 2 = 0 THEN JNull ELSE JStr("Gold")]

\* seq[::-1]
Reverse(seq) == [k \in 1..Len(seq) |-> seq[Len(seq) + 1 - k]]

\* the i-th of n ServiceImpactReports, sorted by incident count: every third
\* service has no scorecard, the others one or two, the second with the
\* scores of the first in reverse between a rule without score and a rule
\* scoring 1.0
PrintedService(i, n, values) ==
    [service_name |-> << IntStr(i \div 10), IntStr(i % 10) >>,
     service_tag |-> <<"s">>,
     incident_count |-> n + 1 - i,
     incidents |-> [k \in 1..(n + 1 - i) |-> IdOf(k)],
     scorecards |-> CASE i % 3 = 0 -> <<>>
                      [] i % 3 = 1 -> << PrintedScorecard(<<"t","1">>, values) >>
                      [] OTHER -> << PrintedScorecard(<<"t","1">>, values),
                                     PrintedScorecard(<<"a","-","b","x">>,
                                                      << JNull >> \o Reverse(values)
                                                         \o << JInt(10) >>) >>]

\* a report of n impacted services
PrintedReport(n, values) ==
    [report_generated_at |-> 0,
     period_start |-> 0 - 1,
     period_end |-> 0,
     total_incidents |-> n,
     impacted_services |-> [i \in 1..n |-> PrintedService(i, n, values)]]

InitPrint ==
    /\ pc = "done"
    /\ now = 0
    /\ days = 1
    /\ error = NoError
    /\ inflight = "none"
    /\ requests = <<>>
    /\ last_response = Answer("none", 0, "none")
    /\ window = [start |-> 0 - 1, end |-> 0]
    /\ rawList = <<>>
    /\ idx = 1
    /\ all_incidents = <<>>
    /\ parseLog = <<>>
    /\ public_incidents = <<>>
    /\ period = [start |-> 0 - 1, end |-> 0]
    /\ service_names = <<>>
    /\ service_incidents_map = <<>>
    /\ \E n \in 0..MaxPrinted :
          \E m \in 0..MaxRules :
              /\ \/ n <= FewPrinted
                 \/ m <= FewRules
                 \/ n = MaxPrinted /\ m = MaxRules
              /\ \E values \in [1..m -> ScoreValues] :
                    report = << PrintedReport(n, values) >>
    /\ all_services = <<>>
    /\ service_tag_map = <<>>
    /\ scorecard_tags = <<>>
    /\ ni = 1
    /\ si = 1
    /\ rule_info_map = <<>>
    /\ service_scorecards = <<>>
    /\ frozen = FALSE
    /\ tape = NoTape
    /\ set_order = <<>>
    /\ run_no = 1
    /\ same_process = TRUE
    /\ first_report = <<>>
    /\ stdout = <<>>

NextPrint == PrintReportSummary

SpecPrint == InitPrint /\ [][NextPrint]_vars

(***************************************************************************)
(* Properties of the incident adapter.                                     *)
(***************************************************************************)
\* the element was parsed and its payload says visibility "public"
LoggedPublic(e) == e.outcome = "parsed" /\ e.raw.visibility = JStr("public")

\* C1: when get_public_incidents_last_n_days returns, its output is exactly
\* the successfully parsed elements whose payload carries visibility
\* "public", in the order of the API array; every returned incident has
\* visibility "public", so an element with another or a missing visibility
\* is never returned.
C1_OnlyPublicReturned ==
    pc = "returned" =>
        LET expected == SelectSeq(parseLog, LoggedPublic)
        IN  /\ Len(public_incidents) = Len(expected)
            /\ \A i \in 1..Len(expected) : public_incidents[i] = expected[i].inc
            /\ \A i \in 1..Len(public_incidents) :
                  public_incidents[i].visibility = "public"

\* a run that returned one public incident after dropping a parsed incident
\* whose visibility is missing or is another word
C1_Witness ==
    /\ pc = "returned"
    /\ Len(parseLog) = 2
    /\ parseLog[1].outcome = "parsed"
    /\ parseLog[1].raw.visibility \in {JAbsent, JStr("internal")}
    /\ Len(public_incidents) = 1
    /\ public_incidents[1].id = "i2"

\* a record of the payload that is well formed in every field
WellFormed(raw) ==
    /\ raw.k = "obj"
    /\ raw.id.k = "str"
    /\ raw.visibility.k = "str"
    /\ raw = [BaseRaw EXCEPT !.id = raw.id, !.visibility = raw.visibility]

\* C2: one bad record never aborts the batch: once the response has arrived,
\* get_incidents returns normally whatever the elements of the array are, and
\* every well-formed record of the array is parsed and returned.
C2_BadRecordNeverAborts ==
    /\ pc = "failed" => error.exc \in {"HTTPStatusError", "ConnectError"}
    /\ pc = "returned" =>
          /\ Len(parseLog) = Len(rawList)
          /\ \A i \in 1..Len(rawList) :
                WellFormed(rawList[i]) => parseLog[i].outcome = "parsed"

\* the payload differs from the well-formed incident only in its severity,
\* status and timestamp fields
FieldLevelOnly(raw) ==
    /\ raw.k = "obj"
    /\ raw = [BaseRaw EXCEPT !.id = raw.id,
                             !.severity = raw.severity,
                             !.incident_status = raw.incident_status,
                             !.status = raw.status,
                             !.created_at = raw.created_at,
                             !.updated_at = raw.updated_at,
                             !.resolved_at = raw.resolved_at]
    /\ raw.id.k = "str"

\* a severity or status field that is not an object with well-typed members
MalformedSeverity(v) ==
    ~(v.k = "obj" /\ v.id.k = "str" /\ v.name.k = "str" /\ v.rank.k = "int")

\* a timestamp field that is no ISO-8601 string
MalformedTimestamp(v) == ~(v.k = "str" /\ v.s \in {"iso", "isoZ"})

\* C3: a malformed severity, status or timestamp never fails the incident:
\* the incident is produced, a malformed severity is rank 0 and named
\* "Unknown", a malformed created_at is the current time, a malformed
\* updated_at is created_at and a malformed resolved_at is absent.
C3_FieldLevelDegrades ==
    \A i \in 1..Len(parseLog) :
        LET e == parseLog[i]
        IN  FieldLevelOnly(e.raw) =>
              /\ e.outcome = "parsed"
              /\ MalformedSeverity(e.raw.severity) =>
                    e.inc.severity.rank = 0 /\ e.inc.severity.name = "Unknown"
              /\ MalformedTimestamp(e.raw.created_at) => e.inc.created_at = e.clock
              /\ MalformedTimestamp(e.raw.updated_at) =>
                    e.inc.updated_at = e.inc.created_at
              /\ MalformedTimestamp(e.raw.resolved_at) => ~e.inc.resolved_at.some

\* C4: every returned incident has resolved_at absent or not earlier than
\* created_at.
C4_ResolvedNotBeforeCreated ==
    pc = "returned" =>
        \A i \in 1..Len(public_incidents) :
            public_incidents[i].resolved_at.some =>
                public_incidents[i].resolved_at.t >= public_incidents[i].created_at

(***************************************************************************)
(* Properties of the grouping.                                             *)
(***************************************************************************)
\* the ids of the incidents of a list
Ids(incident_list) == {incident_list[i].id : i \in 1..Len(incident_list)}

\* the incident lists a service of this name
ListsService(incident, name) ==
    \E i \in 1..Len(incident.services) : incident.services[i].name = name

\* C5: once _group_incidents_by_service has grouped a list of incidents, the
\* union of the ids over all groups is the set of ids of the incidents with
\* at least one affected service, an incident is under a service name if and
\* only if it lists a service of that name, no name has two groups, and an
\* incident without affected services is in no group.
C5_GroupingExact ==
    pc = "svc_list_send" =>
        LET groups == service_incidents_map
            listed == SelectSeq(public_incidents, LAMBDA inc : inc.services # <<>>)
        IN  /\ UNION {Ids(groups[j].val) : j \in 1..Len(groups)} = Ids(listed)
            /\ \A j, k \in 1..Len(groups) : groups[j].key = groups[k].key => j = k
            /\ \A i \in 1..Len(public_incidents) :
                  LET inc == public_incidents[i]
                  IN  /\ \A name \in NamePool :
                            ListsService(inc, name) <=>
                               \E j \in 1..Len(groups) :
                                  /\ groups[j].key = name
                                  /\ inc.id \in Ids(groups[j].val)
                      /\ inc.services = <<>> =>
                            \A j \in 1..Len(groups) : inc.id \notin Ids(groups[j].val)

\* two incidents were grouped: one lists two services and is under both
\* names, the other lists none and is in no group
C5_Witness ==
    /\ pc = "svc_list_send"
    /\ Len(public_incidents) = 2
    /\ Len(public_incidents[1].services) = 2
    /\ public_incidents[2].services = <<>>
    /\ Len(service_incidents_map) = 2
    /\ \A j \in 1..2 : Ids(service_incidents_map[j].val) = {"i1"}

(***************************************************************************)
(* Properties of a whole run of generate_report.                           *)
(***************************************************************************)
\* the report the run returned
Returned == report[1]

\* the position of the group of this service name
GroupIndex(name) ==
    CHOOSE j \in 1..Len(service_incidents_map) : service_incidents_map[j].key = name

\* C6: in every report generate_report returns, impacted_services is in
\* descending order of incident_count, and two entries of equal
\* incident_count are in the order their service names were first inserted
\* into the grouping.
C6_SortedStable ==
    pc = "done" =>
        LET entries == Returned.impacted_services
        IN  \A a, b \in 1..Len(entries) :
                a < b =>
                    /\ entries[a].incident_count >= entries[b].incident_count
                    /\ entries[a].incident_count = entries[b].incident_count =>
                          GroupIndex(entries[a].service_name)
                             < GroupIndex(entries[b].service_name)

\* a report of three services: the second group has the most incidents and
\* comes first, the first and the third tie and keep their order
C6_Witness ==
    /\ pc = "done"
    /\ Len(Returned.impacted_services) = 3
    /\ Returned.impacted_services[1].service_name = service_incidents_map[2].key
    /\ Returned.impacted_services[1].incident_count = 2
    /\ Returned.impacted_services[2].service_name = service_incidents_map[1].key
    /\ Returned.impacted_services[3].service_name = service_incidents_map[3].key
    /\ Returned.impacted_services[2].incident_count
          = Returned.impacted_services[3].incident_count

\* a response, or the failure of the request, arrives in this step
Answered == inflight # "none" /\ inflight' = "none"

\* the answer of this step is a failure
AnsweredFailure == Answered /\ last_response'.exc # "none"

\* the answer of this step is an HTTP 404 to a request of get_service_scorecard
AnsweredPairNotFound ==
    /\ AnsweredFailure
    /\ inflight \in {"def", "scores"}
    /\ last_response'.exc = "HTTPStatusError"
    /\ last_response'.status = 404

\* what the error policy lets a step do
PolicyStep ==
    /\ AnsweredPairNotFound =>
          /\ pc' = IF AfterPair(ni, si)[1] > Len(service_names) THEN "build" ELSE "def_send"
          /\ << ni', si' >> = AfterPair(ni, si)
          /\ service_scorecards' = service_scorecards
          /\ error' = NoError
    /\ AnsweredFailure /\ ~AnsweredPairNotFound =>
          /\ pc' = "failed"
          /\ error' = [exc |-> last_response'.exc, status |-> last_response'.status]
          /\ report' = <<>>
    /\ pc # "failed"

\* C8: a 404 on either request of get_service_scorecard gives an absent
\* result and the run goes on with the next (service, scorecard) pair; any
\* other failed call ends the run with its exception, after which the run
\* takes no step at all: no request is issued or repeated and no report is
\* returned.
C8_ErrorPolicy ==
    /\ [][PolicyStep]_vars
    /\ [](pc = "failed" => report = <<>> /\ inflight = "none" /\ error # NoError)
    /\ [](pc = "done" => error = NoError)

\* a run that met a 404 on its last scorecard lookup and still returned a
\* report with a service in it
C8_Witness ==
    /\ pc = "done"
    /\ last_response = Answer("HTTPStatusError", 404, "none")
    /\ requests[Len(requests)].kind \in {"def", "scores"}
    /\ Returned.impacted_services # <<>>

\* no key of the tag -> scorecards mapping matches the service name, in
\* either direction and whatever the case
NoKeyMatches(service_scorecard_map, service_name) ==
    \A j \in 1..Len(service_scorecard_map) :
        LET tag == Lower(service_scorecard_map[j].key)
        IN  ~IsSubstr(Lower(service_name), tag) /\ ~IsSubstr(tag, Lower(service_name))

\* C9: when generate_report completes, every grouped service name that no
\* key of the resolved tag -> scorecards mapping matches has its entry in
\* impacted_services, with no scorecards, the raw service name as its
\* service_tag, and the count and the ids of its incidents.
C9_UnmatchedServiceKept ==
    pc = "done" =>
        \A j \in 1..Len(service_incidents_map) :
            LET name == service_incidents_map[j].key
                group == service_incidents_map[j].val
            IN  NoKeyMatches(GroupScorecards(service_scorecards, <<>>), name) =>
                    \E e \in 1..Len(Returned.impacted_services) :
                        Returned.impacted_services[e] =
                            [service_name |-> name,
                             service_tag |-> name,
                             incident_count |-> Len(group),
                             incidents |-> [i \in 1..Len(group) |-> group[i].id],
                             scorecards |-> <<>>]

\* a report in which one service carries scorecards and another, that no
\* key of the mapping matches, carries none
C9_Witness ==
    /\ pc = "done"
    /\ \E a, b \in 1..Len(Returned.impacted_services) :
          /\ Returned.impacted_services[a].scorecards # <<>>
          /\ Returned.impacted_services[b].scorecards = <<>>
          /\ Returned.impacted_services[b].service_tag
                = Returned.impacted_services[b].service_name
          /\ NoKeyMatches(GroupScorecards(service_scorecards, <<>>),
                          Returned.impacted_services[b].service_name)

\* C10: when generate_report completes, total_incidents is the number of
\* public incidents the incident adapter returned, those without affected
\* service included, and impacted_services holds exactly one entry per
\* distinct affected-service name among them; with no incident the report
\* has total_incidents = 0 and impacted_services = [].
C10_ReportShape ==
    pc = "done" =>
        LET entries == Returned.impacted_services
        IN  /\ Returned.total_incidents = Len(public_incidents)
            /\ {entries[e].service_name : e \in 1..Len(entries)}
                  = ServiceNames(public_incidents)
            /\ Len(entries) = Cardinality(ServiceNames(public_incidents))
            /\ public_incidents = <<>> =>
                  Returned.total_incidents = 0 /\ entries = <<>>

\* a report over two public incidents, one of them without affected
\* service, that names two services
C10_Witness ==
    /\ pc = "done"
    /\ Len(public_incidents) = 2
    /\ public_incidents[1].services = <<>>
    /\ Returned.total_incidents = 2
    /\ Len(Returned.impacted_services) = 2

(***************************************************************************)
(* Properties of two consecutive runs.                                     *)
(***************************************************************************)
\* the second run has returned its report
BothReturned == pc = "done" /\ run_no = 2

\* the two reports cover the same period
SamePeriod ==
    /\ Returned.period_start = first_report[1].period_start
    /\ Returned.period_end = first_report[1].period_end

\* the two reports say the same of the incidents and of the services
SameContent ==
    /\ Returned.total_incidents = first_report[1].total_incidents
    /\ Returned.impacted_services = first_report[1].impacted_services

\* C7: with frozen responses of both APIs, two consecutive runs of
\* generate_report return reports equal in period_start, period_end,
\* total_incidents and impacted_services, the clock being free to advance
\* between and during the runs.
C7_Idempotent == BothReturned => SamePeriod /\ SameContent

(***************************************************************************)
(* Properties of the catalog adapter.                                      *)
(***************************************************************************)
\* the lower-cased name contains, or is contained in, the lower-cased title
\* or the lower-cased tag of the catalog service
InRelation(service_name, service) ==
    LET n == Lower(service_name)
    IN  \/ IsSubstr(n, Lower(service.title)) \/ IsSubstr(Lower(service.title), n)
        \/ IsSubstr(n, Lower(service.tag)) \/ IsSubstr(Lower(service.tag), n)

\* at least one catalog service is in that relation with the name
Resolvable(service_name) ==
    \E k \in 1..Len(all_services) : InRelation(service_name, all_services[k])

\* get_service_scorecards_by_names is in, or past, its loop over the names
InPairLoop == pc \in {"def_send", "def_wait", "score_send", "score_wait", "build"}

IsDefinitionRequest(r) == r.kind = "def"

IsScoresRequest(r) == r.kind = "scores"

\* C11: a requested service name resolves to a catalog tag if and only if
\* its lower-cased form contains, or is contained in, the lower-cased title
\* or tag of at least one catalog service; a name with no such service is
\* skipped and triggers no scorecard request: every per-service request
\* carries the tag of a service in relation with a requested name, and when
\* the loop is over each name with such a service, and no other, has had
\* its requests for every target scorecard.
C11_FuzzyResolution ==
    /\ InPairLoop =>
          \A i \in 1..Len(service_names) :
              ResolveTag(service_tag_map, service_names[i]) # <<>>
                 <=> Resolvable(service_names[i])
    /\ \A r \in 1..Len(requests) :
          requests[r].kind \in {"def", "scores"} =>
              \E i \in 1..Len(service_names), k \in 1..Len(all_services) :
                  /\ InRelation(service_names[i], all_services[k])
                  /\ requests[r].svc = all_services[k].tag
    /\ pc = "build" =>
          Len(SelectSeq(requests, IsDefinitionRequest))
             = Cardinality({i \in 1..Len(service_names) : Resolvable(service_names[i])})
                  * Len(scorecard_tags)

\* a lookup of two names is over: one name has no catalog service and got
\* no request, the other is no key of the lookup but is contained in one,
\* and was asked for under every target scorecard
C11_Witness ==
    /\ pc = "build"
    /\ scorecard_tags # <<>>
    /\ Len(service_names) = 2
    /\ ~Resolvable(service_names[1])
    /\ Resolvable(service_names[2])
    /\ ~HasKey(service_tag_map, Lower(service_names[2]))
    /\ \E k \in 1..Len(service_tag_map) :
          IsSubstr(Lower(service_names[2]), service_tag_map[k].key)
    /\ Len(SelectSeq(requests, IsDefinitionRequest)) = Len(scorecard_tags)

\* the tag of the first service of the catalog list, in the order of
\* get_services, that is in relation with the name
FirstInRelation(service_name) ==
    LET hits == {k \in 1..Len(all_services) : InRelation(service_name, all_services[k])}
    IN  all_services[CHOOSE k \in hits : \A j \in hits : k <= j].tag

\* C12: a requested name in containment relation with the title or tag of
\* several catalog services resolves to the tag of the matching service
\* that comes first in the catalog service list, whether the match is on a
\* title or on a tag and whether or not two services share a title.
C12_TieBreakServiceOrder ==
    InPairLoop =>
        \A i \in 1..Len(service_names) :
            Resolvable(service_names[i]) =>
                ResolveTag(service_tag_map, service_names[i])
                   = << FirstInRelation(service_names[i]) >>

\* the scorecards get_scorecards listed for the target selection
TargetListing == DictGet(tape.scorecards, <<>>).body

\* compared case-insensitively, the tag of the scorecard contains a target
\* identifier or its name contains a target name
IsTargetAnyCase(scorecard) ==
    \E i \in 1..Len(TARGET_SCORECARDS) :
        \/ IsSubstr(Lower(TARGET_SCORECARDS[i].key), Lower(scorecard.tag))
        \/ IsSubstr(Lower(TARGET_SCORECARDS[i].val), Lower(scorecard.name))

\* the tags of the scorecards of a listing that IsTargetAnyCase keeps
TagsAnyCase(all_scorecards) ==
    LET kept == SelectSeq(all_scorecards, IsTargetAnyCase)
    IN  [i \in 1..Len(kept) |-> kept[i].tag]

\* C13: a scorecard of the listing is kept if and only if, compared
\* case-insensitively, its tag contains a configured target identifier or
\* its name contains a configured target name; each kept scorecard is kept
\* once, in listing order; when none is kept the mapping returned is empty
\* and no per-service scorecard request is issued.
C13_TargetSelection ==
    /\ InPairLoop => scorecard_tags = TagsAnyCase(TargetListing)
    /\ (pc = "build" /\ scorecard_tags = <<>>) =>
          /\ GroupScorecards(service_scorecards, <<>>) = <<>>
          /\ \A r \in 1..Len(requests) : requests[r].kind \notin {"def", "scores"}

(***************************************************************************)
(* Properties of the requests of a run.                                    *)
(***************************************************************************)
\* a request is issued only when none is in flight, and is then the one in
\* flight
SequentialStep ==
    Len(requests') > Len(requests) =>
        /\ inflight = "none"
        /\ Len(requests') = Len(requests) + 1
        /\ inflight' = requests'[Len(requests')].kind

\* a request is in flight exactly while its answer is awaited
OneInFlight ==
    inflight # "none" <=>
        pc \in {"inc_wait", "svc_list_wait", "svc_scores_wait", "sc_list_wait",
                "def_wait", "score_wait"}

\* the requested names that resolved to a catalog tag
ResolvedNames ==
    {i \in 1..Len(service_names) : ResolveTag(service_tag_map, service_names[i]) # <<>>}

\* the (resolved service, target scorecard) pairs of the loop
PairCount == Cardinality(ResolvedNames) * Len(scorecard_tags)

\* the loop over the pairs is over
LoopOver == pc \in {"build", "done"}

IsPairRequest(r) == r.kind \in {"def", "scores"}

\* every scores request follows the definition request of the same pair
ScoresFollowDefinition ==
    \A r \in 1..Len(requests) :
        requests[r].kind = "scores" =>
            /\ r > 1
            /\ requests[r - 1].kind = "def"
            /\ requests[r - 1].sc = requests[r].sc
            /\ requests[r - 1].svc = requests[r].svc

Positions(kind) == {p \in 1..Len(stdout) : stdout[p].kind = kind}

\* where the m-th line of a kind stands
NthPosition(kind, m) ==
    CHOOSE p \in Positions(kind) : Cardinality({q \in Positions(kind) : q <= p}) = m

RECURSIVE RulesFrom(_)
\* the run of rule lines that starts at position p
RulesFrom(p) ==
    IF p > Len(stdout) \/ stdout[p].kind # "rule"
    THEN <<>>
    ELSE << stdout[p] >> \o RulesFrom(p + 1)

\* the rules listed as failing under the scorecard line at position p
ListedUnder(p) ==
    IF p < Len(stdout) /\ stdout[p + 1].kind = "failing" THEN RulesFrom(p + 2) ELSE <<>>

RECURSIVE ScorecardsOf(_)
\* the scorecards of these service reports, in order
ScorecardsOf(service_reports) ==
    IF service_reports = <<>>
    THEN <<>>
    ELSE Head(service_reports).scorecards \o ScorecardsOf(Tail(service_reports))

\* the smaller of two numbers
Min(a, b) == IF a < b THEN a ELSE b

\* the positions of the scores of a scorecard that are present and below 1.0
BelowOne(scorecard) ==
    {k \in 1..Len(scorecard.scores) :
        scorecard.scores[k].score.k = "int" /\ scorecard.scores[k].score.n < 10}

\* the r-th of them
NthBelowOne(scorecard, r) ==
    CHOOSE k \in BelowOne(scorecard) :
        Cardinality({j \in BelowOne(scorecard) : j <= k}) = r

\* C15: for a report with n impacted services print_report_summary renders
\* exactly the first min(n, MAX_SERVICES_DISPLAYED) entries in report
\* order, numbered from 1, and prints the remainder line, with the count
\* n - MAX_SERVICES_DISPLAYED, if and only if n > MAX_SERVICES_DISPLAYED;
\* under each rendered scorecard it lists as failing exactly the first
\* min(k, MAX_FAILING_RULES_DISPLAYED) of its k scores that are present and
\* below 1.0, in scorecard order, and no score that is absent or at least
\* 1.0 is listed anywhere.
C15_DisplayLimits ==
    pc = "printed" =>
        LET services == report[1].impacted_services
            n == Len(services)
            shown == Min(n, MAX_SERVICES_DISPLAYED)
            rendered == ScorecardsOf(SubSeq(services, 1, shown))
        IN  /\ Cardinality(Positions("service")) = shown
            /\ \A i \in 1..shown :
                  /\ stdout[NthPosition("service", i)].num = i
                  /\ stdout[NthPosition("service", i)].text = services[i].service_name
            /\ Positions("more") # {} <=> n > MAX_SERVICES_DISPLAYED
            /\ Cardinality(Positions("more")) <= 1
            /\ \A p \in Positions("more") : stdout[p].num = n - MAX_SERVICES_DISPLAYED
            /\ Cardinality(Positions("scorecard")) = Len(rendered)
            /\ \A m \in 1..Len(rendered) :
                  LET listed == ListedUnder(NthPosition("scorecard", m))
                  IN  /\ Len(listed)
                           = Min(Cardinality(BelowOne(rendered[m])),
                                 MAX_FAILING_RULES_DISPLAYED)
                      /\ \A r \in 1..Len(listed) :
                            LET score == rendered[m].scores[NthBelowOne(rendered[m], r)]
                            IN  /\ listed[r].text = score.title
                                /\ listed[r].score = << score.score.n >>
            /\ \A p \in Positions("rule") : stdout[p - 1].kind \in {"failing", "rule"}
            /\ \A p \in Positions("failing") : stdout[p - 1].kind = "scorecard"

\* a report of more services than are displayed is printed: the remainder
\* line is there, and a rendered scorecard with more failing rules than are
\* displayed, with a rule without score and with a rule scoring 1.0, has
\* MAX_FAILING_RULES_DISPLAYED rules listed
C15_Witness ==
    /\ pc = "printed"
    /\ Len(report[1].impacted_services) > MAX_SERVICES_DISPLAYED
    /\ Positions("more") # {}
    /\ LET scorecard == report[1].impacted_services[2].scorecards[2]
       IN  /\ Cardinality(BelowOne(scorecard)) > MAX_FAILING_RULES_DISPLAYED
           /\ \E k \in 1..Len(scorecard.scores) : scorecard.scores[k].score = JNull
           /\ \E k \in 1..Len(scorecard.scores) : scorecard.scores[k].score = JInt(10)
           /\ Len(ListedUnder(NthPosition("scorecard", 3))) = MAX_FAILING_RULES_DISPLAYED

(***************************************************************************)
(* Properties of the report period.                                        *)
(***************************************************************************)
\* C16: in every report generate_report returns, period_start and
\* period_end are the start and end of the window [now - lookback_days,
\* now] the incident adapter computed and filtered by in the same run, also
\* when the clock advances between the reporter's reading of the time and
\* the adapter's; and period_end - period_start is lookback_days.
C16_ReportCarriesWindow ==
    pc = "done" =>
        /\ Returned.period_start = window.start
        /\ Returned.period_end = window.end
        /\ Returned.period_end - Returned.period_start = days

(***************************************************************************)
(* Properties of the two matching passes.                                  *)
(***************************************************************************)
\* the mapping get_target_scorecards_for_services returned
ReturnedMap == GroupScorecards(service_scorecards, <<>>)

\* the keys of the mapping equal to the name, whatever the case
ExactKeys(service_name) ==
    {i \in 1..Len(ReturnedMap) : Lower(ReturnedMap[i].key) = Lower(service_name)}

\* the keys of the mapping that contain the name or are contained in it,
\* whatever the case
ContainmentKeys(service_name) ==
    {i \in 1..Len(ReturnedMap) :
        \/ IsSubstr(Lower(service_name), Lower(ReturnedMap[i].key))
        \/ IsSubstr(Lower(ReturnedMap[i].key), Lower(service_name))}

\* the smallest of a set of positions
Least(hits) == CHOOSE i \in hits : \A j \in hits : i <= j

C18_MappingWellFormed ==
    pc = "build" =>
        /\ \A i \in 1..Len(ReturnedMap) :
              LET scorecards == ReturnedMap[i].val
              IN  /\ scorecards # <<>>
                  /\ \A s \in 1..Len(scorecards) :
                        scorecards[s].service_tag = ReturnedMap[i].key
                  /\ \A s, t \in 1..Len(scorecards) :
                        s # t => scorecards[s].scorecard_tag # scorecards[t].scorecard_tag
        /\ \A q, r \in 1..Len(requests) :
              (q # r /\ requests[q].kind = "def" /\ requests[r].kind = "def") =>
                  << requests[q].sc, requests[q].svc >> # << requests[r].sc, requests[r].svc >>

(***************************************************************************)
(* Properties of the incident lists of a report.                           *)
(***************************************************************************)
\* the positions of the public incidents that list a service of this name
IncidentsListing(service_name) ==
    {i \in 1..Len(public_incidents) : ListsService(public_incidents[i], service_name)}

\* C19: in every ServiceImpactReport of a completed report incident_count
\* is the length of the incident id list and the number of distinct public
\* incidents that list the service, and no incident id is repeated in the
\* list, also when one incident lists the same service name more than
\* once.
C19_IncidentsCountedOnce ==
    pc = "done" =>
        \A e \in 1..Len(Returned.impacted_services) :
            LET entry == Returned.impacted_services[e]
            IN  /\ entry.incident_count = Len(entry.incidents)
                /\ entry.incident_count
                      = Cardinality(IncidentsListing(entry.service_name))
                /\ \A s, t \in 1..Len(entry.incidents) :
                      s # t => entry.incidents[s] # entry.incidents[t]

====
